---- MODULE Spec2Model ----
(***************************************************************************)
(* A model of slack-modbot: the extension registry (ExtensionStore), the   *)
(* identity cache of ModbotExtension, the Keywords extension and the       *)
(* dispatcher of modbot.py.                                                *)
(*                                                                         *)
(* Strings the code inspects (names, message texts) are sequences of       *)
(* one-character strings, so that lower(), split(' '), startswith() and    *)
(* replace() are computed character by character as Python computes them.  *)
(* Channel ids, user ids and timestamps the code only compares for         *)
(* equality are atoms.                                                     *)
(***************************************************************************)
EXTENDS Integers, Sequences, FiniteSets, TLC

VARIABLES
    extensions,      \* ExtensionStore.extensions: lower-cased name -> record
    instantiations,  \* how many times each registered class was instantiated
    last,            \* the last call made: operation, arguments, outcome
    now,             \* time.time()
    state,           \* ModbotExtension.state: the class attribute, and the
                     \* instance attribute of each instance that assigned one
    own,             \* which instances have assigned self.state
    state_last_refresh,  \* per instance, set by __init__
    window,          \* per instance, the TTL window the accesses so far fall
                     \* in and the users a lookup returned within it
    fetched,         \* per cache, the time at which users_info returned
                     \* each profile it holds
    keywords,        \* Keywords.keywords: an insertion-ordered dict
    config_data,     \* Keywords.config_data
    keyword_template_text,  \* Keywords.keyword_template_text
    config_file,     \* the JSON document in Keywords.config_file
    before_add       \* the table and document as the last confirmed
                     \* `keyword add` found them

storeVars == <<extensions, instantiations>>
cacheVars == <<now, state, own, state_last_refresh, window, fetched>>
kwVars == <<keywords, config_data, keyword_template_text, config_file,
            before_add>>
vars == <<extensions, instantiations, last, now, state, own,
          state_last_refresh, window, fetched, keywords, config_data,
          keyword_template_text, config_file, before_add>>

-----------------------------------------------------------------------------
(* Python str helpers                                                      *)

UpperLetters == <<"A","B","C","D","E","F","G","H","I","J","K","L","M",
                  "N","O","P","Q","R","S","T","U","V","W","X","Y","Z","É">>
LowerLetters == <<"a","b","c","d","e","f","g","h","i","j","k","l","m",
                  "n","o","p","q","r","s","t","u","v","w","x","y","z","é">>

\* str.lower() on one character
LowerChar(c) ==
    IF \E i \in 1..Len(UpperLetters) : UpperLetters[i] = c
    THEN LowerLetters[CHOOSE i \in 1..Len(UpperLetters) : UpperLetters[i] = c]
    ELSE c

\* str.lower(), character by character
LowerSeq(s) == [i \in 1..Len(s) |-> LowerChar(s[i])]

\* the set of elements of a sequence
Range(s) == {s[i] : i \in 1..Len(s)}

\* str.startswith(prefix)
StartsWith(s, prefix) ==
    Len(prefix) <= Len(s) /\ SubSeq(s, 1, Len(prefix)) = prefix

\* str.endswith(suffix)
EndsWith(s, suffix) ==
    Len(suffix) <= Len(s)
    /\ SubSeq(s, Len(s) - Len(suffix) + 1, Len(s)) = suffix

\* `sub in s` for strings
Contains(s, sub) ==
    \E i \in 1..(Len(s) - Len(sub) + 1) :
        SubSeq(s, i, i + Len(sub) - 1) = sub

\* str.split(sep) for a one-character separator
RECURSIVE Split(_, _)
Split(s, sep) ==
    IF \A i \in 1..Len(s) : s[i] # sep
    THEN <<s>>
    ELSE LET k == CHOOSE i \in 1..Len(s) :
                    s[i] = sep /\ \A j \in 1..(i - 1) : s[j] # sep
         IN  <<SubSeq(s, 1, k - 1)>> \o Split(SubSeq(s, k + 1, Len(s)), sep)

\* sep.join(parts) for a one-character separator
RECURSIVE Join(_, _)
Join(parts, sep) ==
    IF parts = <<>> THEN <<>>
    ELSE IF Len(parts) = 1 THEN parts[1]
    ELSE parts[1] \o <<sep>> \o Join(Tail(parts), sep)

\* str.replace(old, new): every non-overlapping occurrence, left to right
RECURSIVE Replace(_, _, _)
Replace(s, old, new) ==
    IF old = <<>> \/ ~Contains(s, old) THEN s
    ELSE IF StartsWith(s, old)
    THEN new \o Replace(SubSeq(s, Len(old) + 1, Len(s)), old, new)
    ELSE <<s[1]>> \o Replace(Tail(s), old, new)

-----------------------------------------------------------------------------
(* The names used as inputs                                                *)

\* the two extension classes of the repository, by their `name` attribute
Name_Keywords == <<"K","e","y","w","o","r","d","s">>
Name_ExtensionManager ==
    <<"E","x","t","e","n","s","i","o","n","M","a","n","a","g","e","r">>
\* a class whose `name` is already lower case (none exists in the repository;
\* register_extension accepts any class)
Name_plain == <<"p","l","a","i","n">>
\* a name no class carries
Name_ghost == <<"g","h","o","s","t">>

\* the classes registered with the store when it is exercised on its own
Classes == {Name_Keywords, Name_plain}

\* names callers pass: the class names, their lower-case forms, an unknown one
CallNames == Classes \cup {LowerSeq(c) : c \in Classes} \cup {Name_ghost}

\* str.lower() of the names in use, computed once
LowerOfName ==
    [n \in CallNames
            \cup {Name_ExtensionManager, LowerSeq(Name_ExtensionManager), <<>>}
        |-> LowerSeq(n)]

Lower(name) == LowerOfName[name]

\* channel ids: two shared channels and one direct conversation
Chan_C1 == <<"C","1">>
Chan_C2 == <<"C","2">>
Chan_D1 == <<"D","1">>
Channels == {Chan_C1, Chan_C2}
ImChannels == {Chan_D1}
ChannelTypes == {"im", "channel", "group"}

\* the part of an inbound event is_enabled_for reads
Events ==
    [channel_type : {"im"}, channel : ImChannels]
        \cup [channel_type : ChannelTypes \ {"im"}, channel : Channels]

NoEvent == [channel_type |-> "-", channel |-> <<>>]

\* instantiations are counted up to this bound
MaxInstantiations == 2

-----------------------------------------------------------------------------
(* ExtensionStore                                                          *)

\* the record register_extension stores; 'instance' is absent until load,
\* modelled as instance 0
NewRecord(cls) ==
    [class |-> cls, loaded |-> FALSE, enabled |-> FALSE,
     enabled_for_im |-> TRUE, enabled_for_channels |-> {}, instance |-> 0]

is_registered(E, name) == Lower(name) \in DOMAIN E

is_loaded(E, name) == is_registered(E, name) /\ E[Lower(name)].loaded

is_enabled(E, name) == is_registered(E, name) /\ E[Lower(name)].enabled

\* the test `name not in extensions` is on the class name as it is, the keys
\* are lower case: for a name that is not lower case it never finds the key
register_extension(E, cls) ==
    IF cls \notin DOMAIN E
    THEN (Lower(cls) :> NewRecord(cls)) @@ E
    ELSE E

load_extension_always(E, name, serial) ==
    IF ~is_registered(E, name)
    THEN [extensions |-> E, ret |-> "False", instantiated |-> FALSE]
    ELSE [extensions |-> [E EXCEPT ![Lower(name)].instance = serial,
                                   ![Lower(name)].loaded = TRUE],
          ret |-> "True", instantiated |-> TRUE]

\* serial: the identity of the instance a new instantiation creates
load_extension(E, name, serial) ==
    IF ~is_registered(E, name)
    THEN [extensions |-> E, ret |-> "False", instantiated |-> FALSE]
    ELSE IF ~is_loaded(E, name)
    THEN [extensions |-> [E EXCEPT ![Lower(name)].instance = serial,
                                   ![Lower(name)].loaded = TRUE],
          ret |-> "True", instantiated |-> TRUE]
    ELSE [extensions |-> E, ret |-> "True", instantiated |-> FALSE]

enable_extension_unloaded(E, name) ==
    IF ~is_registered(E, name)
    THEN [extensions |-> E, ret |-> "False"]
    ELSE [extensions |-> [E EXCEPT ![Lower(name)].enabled = TRUE],
          ret |-> "True"]

enable_extension(E, name) ==
    IF ~is_registered(E, name)
    THEN [extensions |-> E, ret |-> "False"]
    ELSE IF ~is_loaded(E, name)
    THEN [extensions |-> E, ret |-> "False"]
    ELSE [extensions |-> [E EXCEPT ![Lower(name)].enabled = TRUE],
          ret |-> "True"]

enable_extension_for(E, name, channel) ==
    IF ~is_registered(E, name)
    THEN [extensions |-> E, ret |-> "False"]
    ELSE IF ~is_loaded(E, name)
    THEN [extensions |-> E, ret |-> "False"]
    ELSE [extensions |->
            [E EXCEPT ![Lower(name)].enabled_for_channels = @ \cup {channel}],
          ret |-> "True"]

enable_extension_for_im(E, name) ==
    IF ~is_registered(E, name)
    THEN [extensions |-> E, ret |-> "False"]
    ELSE IF ~is_loaded(E, name)
    THEN [extensions |-> E, ret |-> "False"]
    ELSE [extensions |-> [E EXCEPT ![Lower(name)].enabled_for_im = TRUE],
          ret |-> "True"]

\* a disable that would also empty the allow-list of the extension
disable_extension_clearing(E, name) ==
    IF ~is_registered(E, name)
    THEN [extensions |-> E, ret |-> "False"]
    ELSE IF ~is_enabled(E, name)
    THEN [extensions |-> E, ret |-> "False"]
    ELSE [extensions |-> [E EXCEPT ![Lower(name)].enabled = FALSE,
                                   ![Lower(name)].enabled_for_channels = {}],
          ret |-> "True"]

disable_extension(E, name) ==
    IF ~is_registered(E, name)
    THEN [extensions |-> E, ret |-> "False"]
    ELSE IF ~is_enabled(E, name)
    THEN [extensions |-> E, ret |-> "False"]
    ELSE [extensions |-> [E EXCEPT ![Lower(name)].enabled = FALSE],
          ret |-> "True"]

\* set.remove raises KeyError when the channel is not in the set
disable_extension_for(E, name, channel) ==
    IF ~is_registered(E, name)
    THEN [extensions |-> E, ret |-> "False"]
    ELSE IF ~is_enabled(E, name)
    THEN [extensions |-> E, ret |-> "False"]
    ELSE IF channel \notin E[Lower(name)].enabled_for_channels
    THEN [extensions |-> E, ret |-> "KeyError"]
    ELSE [extensions |->
            [E EXCEPT ![Lower(name)].enabled_for_channels = @ \ {channel}],
          ret |-> "True"]

disable_extension_for_im(E, name) ==
    IF ~is_registered(E, name)
    THEN [extensions |-> E, ret |-> "False"]
    ELSE IF ~is_enabled(E, name)
    THEN [extensions |-> E, ret |-> "False"]
    ELSE [extensions |-> [E EXCEPT ![Lower(name)].enabled_for_im = FALSE],
          ret |-> "True"]

is_enabled_for_ignoring_gate(E, name, event) ==
    IF Lower(name) \notin DOMAIN E
    THEN "KeyError"
    ELSE IF event.channel_type = "im"
    THEN (IF E[Lower(name)].enabled_for_im THEN "True" ELSE "False")
    ELSE (IF event.channel \in E[Lower(name)].enabled_for_channels
          THEN "True" ELSE "False")

\* the subscript extensions[name.lower()] is evaluated before is_registered:
\* an unregistered name raises KeyError
is_enabled_for(E, name, event) ==
    IF Lower(name) \notin DOMAIN E
    THEN "KeyError"
    ELSE IF is_registered(E, name) /\ E[Lower(name)].enabled
    THEN IF event.channel_type = "im"
         THEN (IF E[Lower(name)].enabled_for_im THEN "True" ELSE "False")
         ELSE (IF event.channel \in E[Lower(name)].enabled_for_channels
               THEN "True" ELSE "False")
    ELSE "False"

-----------------------------------------------------------------------------------------------------------------------------------------------------
(* ModbotExtension: the identity and channel cache                         *)

\* the two instances the bot creates at startup
Instances == {"ExtensionManager", "Keywords"}

\* user ids: an admin, an owner, a plain member, a deleted account
Users == {"UA", "UO", "UP", "UG"}

\* 60*10
TTL == 600

NoProfile == [id |-> "-", is_admin |-> FALSE, is_owner |-> FALSE]

\* web_client.users_info(user=user) as the platform answers it
users_info(user) ==
    IF user = "UG"
    THEN [ok |-> FALSE, user |-> NoProfile]
    ELSE [ok |-> TRUE,
          user |-> [id |-> user, is_admin |-> (user = "UA"),
                    is_owner |-> (user = "UO")]]

\* web_client.conversations_list()['channels'] as the platform answers it
conversations_list ==
    << [id |-> Chan_C1, name |-> <<"g","e","n">>],
       [id |-> Chan_C2, name |-> <<"d","e","v">>] >>

NoChannel == [id |-> <<>>, name |-> <<>>]

\* {'channels': {}, 'users': {}}
EmptyState == [channels |-> <<>>, users |-> <<>>]

\* where self.state resolves: the instance attribute once one was assigned,
\* the class attribute shared by all instances before that
Resolve(O, inst) == IF O[inst] THEN inst ELSE "class"

\* a lookup that would remember the failure of the upstream call
get_user_info_keeping_failures(S, O, refresh, inst, user, t) ==
    LET expired == (refresh + TTL) < t
        O1 == IF expired THEN [O EXCEPT ![inst] = TRUE] ELSE O
        S1 == IF expired THEN [S EXCEPT ![inst] = EmptyState] ELSE S
        h == Resolve(O1, inst)
        reply == users_info(user)
    IN  IF user \notin DOMAIN S1[h].users
        THEN [state |-> [S1 EXCEPT ![h].users = (user :> reply.user) @@ @],
              own |-> O1, found |-> reply.ok, ret |-> reply.user,
              calls |-> 1]
        ELSE [state |-> S1, own |-> O1, found |-> TRUE,
              ret |-> S1[h].users[user], calls |-> 0]

\* a lookup that would never clear the cache
get_user_info_never_expiring(S, O, refresh, inst, user, t) ==
    LET h == Resolve(O, inst)
        reply == users_info(user)
    IN  IF user \notin DOMAIN S[h].users
        THEN IF reply.ok
             THEN [state |-> [S EXCEPT ![h].users = (user :> reply.user) @@ @],
                   own |-> O, found |-> TRUE, ret |-> reply.user,
                   calls |-> 1]
             ELSE [state |-> S, own |-> O, found |-> FALSE,
                   ret |-> NoProfile, calls |-> 1]
        ELSE [state |-> S, own |-> O, found |-> TRUE,
              ret |-> S[h].users[user], calls |-> 0]

\* S, O: state and own; refresh: self.state_last_refresh; t: time.time().
\* found = FALSE stands for the return value False; calls counts users_info.
get_user_info(S, O, refresh, inst, user, t) ==
    LET expired == (refresh + TTL) < t
        O1 == IF expired THEN [O EXCEPT ![inst] = TRUE] ELSE O
        S1 == IF expired THEN [S EXCEPT ![inst] = EmptyState] ELSE S
        h == Resolve(O1, inst)
        reply == users_info(user)
    IN  IF user \notin DOMAIN S1[h].users
        THEN IF reply.ok
             THEN [state |-> [S1 EXCEPT ![h].users = (user :> reply.user) @@ @],
                   own |-> O1, found |-> TRUE, ret |-> reply.user,
                   calls |-> 1]
             ELSE [state |-> S1, own |-> O1, found |-> FALSE,
                   ret |-> NoProfile, calls |-> 1]
        ELSE [state |-> S1, own |-> O1, found |-> TRUE,
              ret |-> S1[h].users[user], calls |-> 0]

\* the channel name or id get_channel_info looks for
ParseChannel(channel) ==
    IF \E i \in 1..Len(channel) : channel[i] = "<"
    THEN LET first == Split(channel, "|")[1]
         IN  SubSeq(first, 3, Len(first))
    ELSE IF channel[1] = "#"
    THEN Tail(channel)
    ELSE channel

\* channel[0] of an empty string raises IndexError
get_channel_info(S, O, refresh, inst, channel, t) ==
    LET stale == (refresh + TTL) < t \/ S[Resolve(O, inst)].channels = <<>>
        O1 == IF stale THEN [O EXCEPT ![inst] = TRUE] ELSE O
        S1 == IF stale
              THEN [S EXCEPT ![inst] = [channels |-> conversations_list,
                                        users |-> <<>>]]
              ELSE S
        h == Resolve(O1, inst)
    IN  IF channel = <<>>
        THEN [state |-> S1, own |-> O1, found |-> FALSE, ret |-> NoChannel,
              exc |-> "IndexError"]
        ELSE LET wanted == ParseChannel(channel)
                 channel_found ==
                    SelectSeq(S1[h].channels,
                              LAMBDA chan : chan.name = wanted
                                            \/ chan.id = wanted)
             IN  IF channel_found # <<>>
                 THEN [state |-> S1, own |-> O1, found |-> TRUE,
                       ret |-> channel_found[1], exc |-> "none"]
                 ELSE [state |-> S1, own |-> O1, found |-> FALSE,
                       ret |-> NoChannel, exc |-> "none"]

\* the TTL window of section 4.1 of the specification, as the accesses of
\* one instance define it: an access later than TTL after the window's start
\* opens a new window
Access(w, t) ==
    IF t - w.start > TTL THEN [start |-> t, users |-> {}] ELSE w

\* after ModbotExtension.__init__ of both instances at time 0
CacheStart ==
    /\ now = 0
    /\ state = [h \in Instances \cup {"class"} |-> EmptyState]
    /\ own = [i \in Instances |-> FALSE]
    /\ state_last_refresh = [i \in Instances |-> 0]
    /\ window = [i \in Instances |-> [start |-> 0, users |-> {}]]
    /\ fetched = [h \in Instances \cup {"class"} |-> <<>>]

-----------------------------------------------------------------------------
(* Keywords: data                                                          *)

\* a keyword's reply: free text (str) or a list of channel references
StrReply(text) == [kind |-> "str", text |-> text, channels |-> <<>>]
ListReply(channels) == [kind |-> "list", text |-> <<>>, channels |-> channels]

\* dict operations on an insertion-ordered sequence of [key, reply]
DictHas(K, key) == \E i \in 1..Len(K) : K[i].key = key

DictGet(K, key) == K[CHOOSE i \in 1..Len(K) : K[i].key = key].reply

DictSet(K, key, reply) ==
    IF DictHas(K, key)
    THEN [i \in 1..Len(K) |->
            IF K[i].key = key THEN [key |-> key, reply |-> reply] ELSE K[i]]
    ELSE Append(K, [key |-> key, reply |-> reply])

DictDel(K, key) == SelectSeq(K, LAMBDA e : e.key # key)

\* the class attribute config_data
DefaultConfig ==
    [reply_in_thread |-> TRUE, reply_in_ephemeral |-> FALSE,
     reply_to_keywords_by_admins |-> TRUE, reply_to_replies |-> FALSE]

\* the class attribute keyword_template_text, cut down to the line that
\* carries the placeholder
DefaultTemplate == <<"t","u"," ","p","e","u","x"," ","r","e","j","o","i","n","d","r","e"," ","{","c","h","a","n","n","e","l","s","}">>

Placeholder == <<"{","c","h","a","n","n","e","l","s","}">>

-----------------------------------------------------------------------------
(* Keywords._sanitize_text                                                 *)

Rep(old, new) == [old |-> old, new |-> new]

\* character_replacements, in the order of the dict after update()
character_replacements ==
    << Rep(<<"à">>, <<"a">>), Rep(<<"ä">>, <<"a">>), Rep(<<"â">>, <<"a">>),
       Rep(<<"é">>, <<"e">>), Rep(<<"è">>, <<"e">>), Rep(<<"ë">>, <<"e">>),
       Rep(<<"ê">>, <<"e">>), Rep(<<"ï">>, <<"i">>),
       Rep(<<"ö">>, <<"o">>), Rep(<<"ô">>, <<"o">>),
       Rep(<<"ù">>, <<"u">>), Rep(<<"ü">>, <<"u">>), Rep(<<"û">>, <<"u">>),
       Rep(<<"*","*">>, <<>>), Rep(<<"*">>, <<>>),
       Rep(<<"_","_">>, <<>>), Rep(<<"_">>, <<>>),
       Rep(<<"backtick","backtick","backtick">>, <<>>),
       Rep(<<"backtick">>, <<>>) >>

RECURSIVE ReplaceEach(_, _)
ReplaceEach(s, reps) ==
    IF reps = <<>> THEN s
    ELSE ReplaceEach(Replace(s, reps[1].old, reps[1].new), Tail(reps))

\* with only_formatting: each key is stripped once from the start and once
\* from the end
RECURSIVE StripEach(_, _)
StripEach(s, reps) ==
    IF reps = <<>> THEN s
    ELSE LET i == reps[1].old
             s1 == IF StartsWith(s, i) THEN SubSeq(s, Len(i) + 1, Len(s))
                   ELSE s
             s2 == IF EndsWith(s1, i) THEN SubSeq(s1, 1, Len(s1) - Len(i))
                   ELSE s1
         IN  StripEach(s2, Tail(reps))

_sanitize_text(text, only_formatting) ==
    IF only_formatting
    THEN StripEach(LowerSeq(text), character_replacements)
    ELSE ReplaceEach(LowerSeq(text), character_replacements)

-----------------------------------------------------------------------------
(* Keywords.keyword_search_reply                                           *)

NoReply == [ready_to_send |-> FALSE, text |-> <<>>, matched |-> <<>>]

\* the reply data for the first keyword of the table that is one of the
\* tokens of text.split(' '); ready_to_send = FALSE stands for `return False`
keyword_search_reply(K, template, event_text_sanitized) ==
    LET tokens == Range(Split(event_text_sanitized, " "))
        matching_keywords == SelectSeq(K, LAMBDA e : e.key \in tokens)
    IN  IF matching_keywords = <<>>
        THEN NoReply
        ELSE LET keyword_reply == matching_keywords[1].reply
             IN  IF keyword_reply.kind = "str"
                 THEN [ready_to_send |-> TRUE, text |-> keyword_reply.text,
                       matched |-> matching_keywords[1].key]
                 ELSE LET untagged ==
                            SelectSeq(keyword_reply.channels,
                                      LAMBDA c : "#" \notin Range(c))
                          tagged ==
                            SelectSeq(keyword_reply.channels,
                                      LAMBDA c : "#" \in Range(c))
                          channels ==
                            [i \in 1..Len(untagged) |-> <<"#">> \o untagged[i]]
                                \o tagged
                      IN  [ready_to_send |-> TRUE,
                           text |-> Replace(template, Placeholder,
                                            Join(channels, " ")),
                           matched |-> matching_keywords[1].key]

\* the class attributes of Keywords before any instance exists
KwIdle ==
    /\ keywords = <<>>
    /\ config_data = DefaultConfig
    /\ keyword_template_text = DefaultTemplate
    /\ config_file = <<>>
    /\ before_add = <<>>

-----------------------------------------------------------------------------
(* The calls of the registry, as actions                                   *)

\* what is recorded of a call: its arguments, what it returned or raised, and
\* whether it changed the registry
Call(op, name, event, ret, changed) ==
    [op |-> op, name |-> name, event |-> event, ret |-> ret,
     changed |-> changed]

StoreRegister(cls) ==
    LET E == register_extension(extensions, cls)
    IN  /\ extensions' = E
        /\ last' = Call("register_extension", cls, NoEvent, "None",
                        E # extensions)
        /\ UNCHANGED instantiations
        /\ UNCHANGED cacheVars
        /\ UNCHANGED kwVars

StoreLoad(name) ==
    LET r == load_extension(extensions, name,
                            IF Lower(name) \in DOMAIN instantiations
                            THEN instantiations[Lower(name)] + 1 ELSE 1)
    IN  /\ r.instantiated => instantiations[Lower(name)] < MaxInstantiations
        /\ extensions' = r.extensions
        /\ instantiations' =
              IF r.instantiated
              THEN [instantiations EXCEPT ![Lower(name)] = @ + 1]
              ELSE instantiations
        /\ last' = Call("load_extension", name, NoEvent, r.ret,
                        r.extensions # extensions)
        /\ UNCHANGED cacheVars
        /\ UNCHANGED kwVars

\* a call that returns [extensions, ret] and instantiates nothing
StoreCall(op, name, event, r) ==
    /\ extensions' = r.extensions
    /\ last' = Call(op, name, event, r.ret, r.extensions # extensions)
    /\ UNCHANGED instantiations
    /\ UNCHANGED cacheVars
    /\ UNCHANGED kwVars

OnChannel(channel) == [channel_type |-> "-", channel |-> channel]

StoreEnable(name) ==
    StoreCall("enable_extension", name, NoEvent,
              enable_extension(extensions, name))

StoreEnableFor(name, channel) ==
    StoreCall("enable_extension_for", name, OnChannel(channel),
              enable_extension_for(extensions, name, channel))

StoreEnableForIm(name) ==
    StoreCall("enable_extension_for_im", name, NoEvent,
              enable_extension_for_im(extensions, name))

StoreDisable(name) ==
    StoreCall("disable_extension", name, NoEvent,
              disable_extension(extensions, name))

StoreDisableFor(name, channel) ==
    StoreCall("disable_extension_for", name, OnChannel(channel),
              disable_extension_for(extensions, name, channel))

StoreDisableForIm(name) ==
    StoreCall("disable_extension_for_im", name, NoEvent,
              disable_extension_for_im(extensions, name))

StoreIsEnabledFor(name, event) ==
    /\ last' = Call("is_enabled_for", name, event,
                    is_enabled_for(extensions, name, event), FALSE)
    /\ UNCHANGED storeVars
    /\ UNCHANGED kwVars
    /\ UNCHANGED cacheVars

\* the class attribute `extensions = {}` of a fresh ExtensionStore
StoreInit ==
    /\ extensions = <<>>
    /\ instantiations = [c \in {Lower(c) : c \in Classes} |-> 0]
    /\ last = Call("init", <<>>, NoEvent, "None", FALSE)
    /\ CacheStart
    /\ KwIdle

StoreNext ==
    \/ \E cls \in Classes : StoreRegister(cls)
    \/ \E name \in CallNames : StoreLoad(name)
    \/ \E name \in CallNames : StoreEnable(name)
    \/ \E name \in CallNames, channel \in Channels : StoreEnableFor(name, channel)
    \/ \E name \in CallNames : StoreEnableForIm(name)
    \/ \E name \in CallNames : StoreDisable(name)
    \/ \E name \in CallNames, channel \in Channels : StoreDisableFor(name, channel)
    \/ \E name \in CallNames : StoreDisableForIm(name)
    \/ \E name \in CallNames, event \in Events : StoreIsEnabledFor(name, event)

SpecStore == StoreInit /\ [][StoreNext]_vars

-----------------------------------------------------------------------------
(* Claims about the registry                                               *)

\* C1: enable_extension(name) on an extension that is registered but not
\* loaded returns False, leaves its enabled flag false and changes no other
\* field of the registry.
C1_EnableUnloadedFails ==
    [][(/\ last'.op = "enable_extension"
        /\ is_registered(extensions, last'.name)
        /\ ~is_loaded(extensions, last'.name))
       => (/\ last'.ret = "False"
           /\ extensions' = extensions
           /\ ~extensions'[Lower(last'.name)].enabled)]_vars

C1_Witness ==
    /\ last.op = "enable_extension"
    /\ is_registered(extensions, last.name)
    /\ ~is_loaded(extensions, last.name)
    /\ last.ret = "False"

\* C2: load_extension(name) on a registered extension returns True; the call
\* that finds it unloaded instantiates the class once and marks it loaded,
\* every later call instantiates nothing and leaves the record unchanged.
C2_LoadIdempotent ==
    [][(/\ last'.op = "load_extension"
        /\ is_registered(extensions, last'.name))
       => (/\ last'.ret = "True"
           /\ is_loaded(extensions', last'.name)
           /\ IF is_loaded(extensions, last'.name)
              THEN /\ extensions' = extensions
                   /\ instantiations' = instantiations
              ELSE /\ instantiations' =
                        [instantiations EXCEPT ![Lower(last'.name)] = @ + 1]
                   /\ extensions' =
                        [extensions EXCEPT
                            ![Lower(last'.name)].loaded = TRUE,
                            ![Lower(last'.name)].instance =
                                instantiations'[Lower(last'.name)]])]_vars

\* a second load of a loaded extension: success, nothing changed, one instance
C2_Witness ==
    /\ last.op = "load_extension"
    /\ last.ret = "True"
    /\ ~last.changed
    /\ is_loaded(extensions, last.name)
    /\ instantiations[Lower(last.name)] = 1
    /\ extensions[Lower(last.name)].enabled

\* C3: registering a class whose name (compared case-insensitively) is
\* already registered leaves the registry unchanged.
C3_RegisterIdempotent ==
    [][(/\ last'.op = "register_extension"
        /\ is_registered(extensions, last'.name))
       => extensions' = extensions]_vars

\* C4: for a registered extension, is_enabled_for returns True exactly when
\* the global flag is set and the event is an IM with enabled_for_im set, or
\* is not an IM and its channel is in enabled_for_channels; it is False
\* whenever the global flag is off.
C4_TruthTable ==
    (last.op = "is_enabled_for" /\ is_registered(extensions, last.name))
    => LET ext == extensions[Lower(last.name)]
       IN  /\ last.ret \in {"True", "False"}
           /\ last.ret = "True" <=>
                 /\ ext.enabled
                 /\ \/ /\ last.event.channel_type = "im"
                       /\ ext.enabled_for_im
                    \/ /\ last.event.channel_type # "im"
                       /\ last.event.channel \in ext.enabled_for_channels

\* globally disabled, the channel still in the allow-list: False
C4_Witness ==
    /\ last.op = "is_enabled_for"
    /\ is_registered(extensions, last.name)
    /\ ~extensions[Lower(last.name)].enabled
    /\ last.event.channel \in extensions[Lower(last.name)].enabled_for_channels
    /\ last.ret = "False"

\* C5: is_enabled_for with a name that was never registered returns False.
C5_UnregisteredIsFalse ==
    (last.op = "is_enabled_for" /\ ~is_registered(extensions, last.name))
    => last.ret = "False"

\* C32: every record whose enabled flag is set is loaded and has an
\* instance attached.
C32_EnabledIsLoaded ==
    \A k \in DOMAIN extensions :
        extensions[k].enabled
        => (extensions[k].loaded /\ extensions[k].instance # 0)

\* an extension enabled on its second instance: it was registered again
\* after its first load
C32_Witness ==
    \E k \in DOMAIN extensions :
        /\ extensions[k].enabled
        /\ extensions[k].instance = 2
        /\ last.op = "enable_extension"

\* the registry with the enabled flag of one record set to a value
WithEnabled(E, name, flag) ==
    IF is_registered(E, name)
    THEN [E EXCEPT ![Lower(name)].enabled = flag]
    ELSE E

\* C33: enable_extension and disable_extension change at most the enabled
\* flag of the record they name, and an enable_extension that follows a
\* successful disable_extension of the same extension succeeds and gives
\* is_enabled_for the value it had before the disable, for every event.
C33_OnlyTheGlobalFlag ==
    [][ (last'.op \in {"enable_extension", "disable_extension"})
        => /\ instantiations' = instantiations
           /\ extensions' \in {WithEnabled(extensions, last'.name, flag) :
                                    flag \in BOOLEAN}
           /\ (/\ last.op = "disable_extension"
               /\ last.ret = "True"
               /\ last'.op = "enable_extension"
               /\ Lower(last'.name) = Lower(last.name))
              => /\ last'.ret = "True"
                 /\ \A event \in Events :
                        is_enabled_for(extensions', last'.name, event)
                        = is_enabled_for(
                            WithEnabled(extensions, last.name, TRUE),
                            last.name, event) ]_vars

\* an extension enabled again, with a channel in its allow-list and direct
\* messages switched off while it was enabled before
C33_Witness ==
    /\ last.op = "enable_extension"
    /\ last.ret = "True"
    /\ last.changed
    /\ ~extensions[Lower(last.name)].enabled_for_im
    /\ extensions[Lower(last.name)].enabled_for_channels # {}

\* C34: on a loaded extension whose enabled flag is off,
\* enable_extension_for adds the channel to the allow-list,
\* disable_extension_for removes it, and neither changes enabled or
\* enabled_for_im.
C34_StagedWhileDisabled ==
    [][ (/\ last'.op \in {"enable_extension_for", "disable_extension_for"}
         /\ is_loaded(extensions, last'.name)
         /\ ~is_enabled(extensions, last'.name))
        => LET k == Lower(last'.name)
               c == last'.event.channel
           IN  /\ extensions'[k].enabled = extensions[k].enabled
               /\ extensions'[k].enabled_for_im = extensions[k].enabled_for_im
               /\ last'.op = "enable_extension_for"
                    => c \in extensions'[k].enabled_for_channels
               /\ last'.op = "disable_extension_for"
                    => c \notin extensions'[k].enabled_for_channels ]_vars

\* C35: disable_extension_for on an enabled extension whose allow-list does
\* not hold the channel returns without raising and leaves the registry
\* unchanged.
C35_AbsentChannelIsQuiet ==
    [][ (/\ last'.op = "disable_extension_for"
         /\ is_enabled(extensions, last'.name)
         /\ last'.event.channel
                \notin extensions[Lower(last'.name)].enabled_for_channels)
        => (last'.ret \in {"True", "False"} /\ extensions' = extensions) ]_vars

-----------------------------------------------------------------------------
(* The calls of the cache, as actions                                      *)

\* how far the clock is advanced, and its steps: one second, one TTL
MaxTicks == 2
Ticks(t) == (t \div TTL) + (t % TTL)

\* the users looked up when the cache is exercised on its own
CacheUsers == {"UA", "UP", "UG"}

\* channel references as commands carry them
ChannelRefs ==
    { <<"#","g","e","n">>, <<"<","#","C","2","|","d","e","v",">">>,
      <<"C","1">>, <<"n","o","n","e">>, <<>> }

\* seen: a lookup of this window already returned the user's profile;
\* rolled: the TTL had elapsed since the window's start
CacheCall(op, inst, user, found, calls, seen, rolled) ==
    [op |-> op, inst |-> inst, user |-> user, found |-> found,
     calls |-> calls, seen |-> seen, rolled |-> rolled]

CacheTick(d) ==
    /\ Ticks(now) < MaxTicks
    /\ now' = now + d
    /\ UNCHANGED <<state, own, state_last_refresh, window, fetched, last>>
    /\ UNCHANGED storeVars
    /\ UNCHANGED kwVars

CacheGetUserInfo(inst, user) ==
    LET r == get_user_info(state, own, state_last_refresh[inst], inst, user,
                           now)
        w == Access(window[inst], now)
    IN  /\ state' = r.state
        /\ own' = r.own
        /\ window' = [window EXCEPT ![inst] =
                        [w EXCEPT !.users =
                            IF r.found THEN @ \cup {user} ELSE @]]
        /\ last' = CacheCall("get_user_info", inst, user, r.found, r.calls,
                             user \in w.users, w # window[inst])
        /\ UNCHANGED <<now, state_last_refresh, fetched>>
        /\ UNCHANGED storeVars
        /\ UNCHANGED kwVars

CacheGetChannelInfo(inst, channel) ==
    LET r == get_channel_info(state, own, state_last_refresh[inst], inst,
                              channel, now)
        w == Access(window[inst], now)
    IN  /\ state' = r.state
        /\ own' = r.own
        /\ window' = [window EXCEPT ![inst] = w]
        /\ last' = CacheCall("get_channel_info", inst, "-", r.found, 0,
                             FALSE, w # window[inst])
        /\ UNCHANGED <<now, state_last_refresh, fetched>>
        /\ UNCHANGED storeVars
        /\ UNCHANGED kwVars

CacheInit ==
    /\ CacheStart
    /\ extensions = <<>>
    /\ instantiations = <<>>
    /\ last = CacheCall("init", "-", "-", FALSE, 0, FALSE, FALSE)
    /\ KwIdle

CacheNext ==
    \/ \E d \in {1, TTL} : CacheTick(d)
    \/ \E inst \in Instances, user \in CacheUsers : CacheGetUserInfo(inst, user)
    \/ \E inst \in Instances, channel \in ChannelRefs :
            CacheGetChannelInfo(inst, channel)

SpecCache == CacheInit /\ [][CacheNext]_vars

\* C6: a lookup of a user whose profile an earlier lookup of the same TTL
\* window returned causes no users_info call, and a lookup made once the TTL
\* has elapsed causes one.
C6_OneUpstreamCallPerWindow ==
    last.op = "get_user_info"
    => /\ last.seen => last.calls = 0
       /\ last.rolled => last.calls = 1

\* C30: an access that finds the watermark older than the TTL sets the
\* watermark to the current time.
C30_WatermarkReset ==
    [][ (last'.op \in {"get_user_info", "get_channel_info"}
            /\ state_last_refresh[last'.inst] + TTL < now)
        => state_last_refresh'[last'.inst] = now ]_vars

-----------------------------------------------------------------------------
(* The age of the profiles the cache returns                               *)

\* the times of the profiles of each cache after a call at time t that
\* left the caches S2: a profile users_info returned during the call (calls
\* = 1, stored in the cache h of the caller) is stamped t, a profile kept
\* has the time it had
Stamp(S2, h, user, calls, t) ==
    [c \in DOMAIN S2 |->
        [u \in DOMAIN S2[c].users |->
            IF c = h /\ u = user /\ calls = 1 THEN t ELSE fetched[c][u]]]

StaleGetUserInfo(inst, user) ==
    LET r == get_user_info(state, own, state_last_refresh[inst], inst, user,
                           now)
    IN  /\ state' = r.state
        /\ own' = r.own
        /\ fetched' = Stamp(r.state, Resolve(r.own, inst), user, r.calls, now)
        /\ last' = CacheCall("get_user_info", inst, user, r.found, r.calls,
                             FALSE, FALSE)
        /\ UNCHANGED <<now, state_last_refresh, window>>
        /\ UNCHANGED storeVars
        /\ UNCHANGED kwVars

StaleGetChannelInfo(inst, channel) ==
    LET r == get_channel_info(state, own, state_last_refresh[inst], inst,
                              channel, now)
    IN  /\ state' = r.state
        /\ own' = r.own
        /\ fetched' = Stamp(r.state, Resolve(r.own, inst), "-", 0, now)
        /\ last' = CacheCall("get_channel_info", inst, "-", r.found, 0,
                             FALSE, FALSE)
        /\ UNCHANGED <<now, state_last_refresh, window>>
        /\ UNCHANGED storeVars
        /\ UNCHANGED kwVars

\* the startup sequence creates ExtensionManager, then Keywords, and then
\* starts the reception of events: Keywords is created in the same second
\* or in the next one, and the first event comes after that
StaleInit ==
    /\ now \in {0, 1}
    /\ state_last_refresh =
            [i \in Instances |-> IF i = "Keywords" THEN now ELSE 0]
    /\ state = [h \in Instances \cup {"class"} |-> EmptyState]
    /\ own = [i \in Instances |-> FALSE]
    /\ window = [i \in Instances |-> [start |-> 0, users |-> {}]]
    /\ fetched = [h \in Instances \cup {"class"} |-> <<>>]
    /\ extensions = <<>>
    /\ instantiations = <<>>
    /\ last = CacheCall("init", "-", "-", FALSE, 0, FALSE, FALSE)
    /\ KwIdle

StaleNext ==
    \/ \E d \in {1, TTL} : CacheTick(d)
    \/ \E inst \in Instances, user \in {"UA", "UP"} :
            StaleGetUserInfo(inst, user)
    \/ \E inst \in Instances : StaleGetChannelInfo(inst, <<"#","g","e","n">>)

SpecStale == StaleInit /\ [][StaleNext]_vars

\* C40: a profile get_user_info returns from the cache was returned by
\* users_info at most TTL seconds before the call.
C40_StalenessBound ==
    [][ (/\ now' = now
         /\ last'.op = "get_user_info"
         /\ last'.found
         /\ last'.calls = 0)
        => now - fetched'[Resolve(own', last'.inst)][last'.user] <= TTL ]_vars

\* Keywords reads from the shared cache a profile fetched TTL seconds
\* before, at a time when ExtensionManager has already left that cache
C40_Witness ==
    /\ last.op = "get_user_info"
    /\ last.inst = "Keywords"
    /\ last.user = "UA"
    /\ last.found
    /\ last.calls = 0
    /\ own["ExtensionManager"]
    /\ ~own["Keywords"]
    /\ now - fetched["class"]["UA"] = TTL

-----------------------------------------------------------------------------
(* keyword_search_reply on its own                                         *)

\* the longest message text searched
MaxTextLen == 3

SearchChars == {"a", "b", " ", "\n"}

SearchTexts ==
    UNION {[1..n -> SearchChars] : n \in 0..MaxTextLen}

Key_a == <<"a">>
Key_ab == <<"a","b">>

Entry(key, reply) == [key |-> key, reply |-> reply]

\* keyword tables: every order of the entries present
SearchTables ==
    LET ea == Entry(Key_a, StrReply(<<"x">>))
        eb == Entry(Key_ab, ListReply(<< <<"g","e","n">> >>))
    IN  { <<>>, <<ea>>, <<eb>>, <<ea, eb>>, <<eb, ea>> }

SearchCall(text, r) ==
    [op |-> "keyword_search_reply", text |-> text, found |-> r.ready_to_send,
     reply |-> r.text, matched |-> r.matched]

Search(text) ==
    /\ last' = SearchCall(text, keyword_search_reply(keywords,
                                    keyword_template_text, text))
    /\ UNCHANGED storeVars
    /\ UNCHANGED cacheVars
    /\ UNCHANGED kwVars

SearchInit ==
    /\ keywords \in SearchTables
    /\ config_data = DefaultConfig
    /\ keyword_template_text = DefaultTemplate
    /\ config_file = <<>>
    /\ before_add = <<>>
    /\ extensions = <<>>
    /\ instantiations = <<>>
    /\ CacheStart
    /\ last = SearchCall(<<>>, NoReply)

SearchNext == \E text \in SearchTexts : Search(text)

SpecSearch == SearchInit /\ [][SearchNext]_vars

\* the tokens of a text separated by whitespace (space, tab, newline)
WhitespaceTokens(text) ==
    LET spaced == [i \in 1..Len(text) |->
                      IF text[i] \in {"\n", "\t"} THEN " " ELSE text[i]]
    IN  Range(Split(spaced, " ")) \ {<<>>}

\* C7: keyword_search_reply returns a reply exactly when a configured
\* keyword equals one of the whitespace-separated tokens of the text; a
\* keyword that is only part of a longer token does not match.
C7_WholeWordMatch ==
    last.op = "keyword_search_reply"
    => (last.found <=>
            \E i \in 1..Len(keywords) :
                keywords[i].key \in WhitespaceTokens(last.text))

-----------------------------------------------------------------------------
(* Inbound events and outbound messages                                    *)

\* the direct conversation of a user
ImOf(user) == <<"D", user>>

\* the part of an inbound message event the handlers read; thread_ts = "-"
\* stands for an event without that key
Event(user, channel_type, channel, text, ts, thread_ts) ==
    [user |-> user, channel_type |-> channel_type, channel |-> channel,
     text |-> text, ts |-> ts, thread_ts |-> thread_ts]

\* a reply text: the entry of `replies` it was made from and what was put
\* in its placeholder; key "verbatim" is a keyword's own reply
Text(key, arg) == [key |-> key, arg |-> arg]

\* one call of the web client; "-" stands for a key deleted before the call
Msg(method, channel, user, thread_ts, text) ==
    [method |-> method, channel |-> channel, user |-> user,
     thread_ts |-> thread_ts, text |-> text]

\* the value of reply_message['type']: the str 'regular' or a list of str
Type_regular ==
    [kind |-> "str", chars |-> <<"r","e","g","u","l","a","r">>, items |-> <<>>]

Type_thread_ephemeral ==
    [kind |-> "list", chars |-> <<>>,
     items |-> << <<"t","h","r","e","a","d">>, <<"e","p","h","e","m","e","r","a","l">> >>]

Type_ephemeral ==
    [kind |-> "str", chars |-> <<"e","p","h","e","m","e","r","a","l">>, items |-> <<>>]

\* Python's `x in type`: substring of a str, member of a list
In(x, type) ==
    IF type.kind = "str" THEN Contains(type.chars, x)
    ELSE x \in Range(type.items)

\* what the environment lets succeed while one event is handled
Healthy == [disk_ok |-> TRUE, im_ok |-> TRUE]

\* what the handlers of one event read and write: the attributes of the
\* extensions, the registry, the identity cache, and the calls made to the
\* web client (sent, opened); delivered lists the extensions whose hook
\* was invoked and raised is the exception leaving the handler
World(env) ==
    [keywords |-> keywords, config_data |-> config_data,
     keyword_template_text |-> keyword_template_text,
     config_file |-> config_file, extensions |-> extensions,
     state |-> state, own |-> own,
     sent |-> <<>>, opened |-> 0, delivered |-> <<>>, raised |-> "none",
     env |-> env]

\* reply_data: False, or a dict with ready_to_send = True
False == [ready_to_send |-> FALSE, type |-> Type_regular, channel |-> <<>>,
          text |-> Text("-", <<>>)]

Regular(text) ==
    [ready_to_send |-> TRUE, type |-> Type_regular, channel |-> <<>>,
     text |-> text]

Handled(w, reply) == [w |-> w, reply |-> reply]

-----------------------------------------------------------------------------
(* ModbotExtension: user_is_admin, user_is_owner, log_info                  *)

WithCache(w, r) == [w EXCEPT !.state = r.state, !.own = r.own]

CacheGet(w, inst, user) ==
    get_user_info(w.state, w.own, state_last_refresh[inst], inst, user, now)

user_is_admin(w, inst, user) ==
    LET answer(user_data) ==
            [w |-> WithCache(w, user_data),
             ret |-> IF user_data.found THEN user_data.ret.is_admin
                     ELSE FALSE]
    IN  answer(CacheGet(w, inst, user))

user_is_owner(w, inst, user) ==
    LET answer(user_data) ==
            [w |-> WithCache(w, user_data),
             ret |-> IF user_data.found THEN user_data.ret.is_owner
                     ELSE FALSE]
    IN  answer(CacheGet(w, inst, user))

everyone_is_admin(w, inst, user) == [w |-> w, ret |-> TRUE]

\* self.user_is_admin(user) or self.user_is_owner(user)
admin_or_owner(w, inst, user) ==
    LET or_owner(a) == IF a.ret THEN a ELSE user_is_owner(a.w, inst, user)
    IN  or_owner(user_is_admin(w, inst, user))

\* log_info(..., user=user) looks the user up to print the name
log_info(w, inst, user) == WithCache(w, CacheGet(w, inst, user))

\* C31: a lookup of a user id for which users_info reports failure returns
\* False after one upstream call, however often it is repeated; the cache
\* never holds an entry for such an id; user_is_admin, user_is_owner and the
\* test that guards the configuration commands answer False for it.
C31_FailedLookup ==
    /\ (last.op = "get_user_info" /\ ~users_info(last.user).ok)
            => (~last.found /\ last.calls = 1)
    /\ \A h \in DOMAIN state :
            \A user \in DOMAIN state[h].users : users_info(user).ok
    /\ \A inst \in Instances, user \in Users :
            ~users_info(user).ok
            => /\ ~user_is_admin(World(Healthy), inst, user).ret
               /\ ~user_is_owner(World(Healthy), inst, user).ret
               /\ ~admin_or_owner(World(Healthy), inst, user).ret

\* a failed lookup on an instance whose cache holds the admin's profile
C31_Witness ==
    /\ last.op = "get_user_info"
    /\ last.user = "UG"
    /\ ~last.found
    /\ last.calls = 1
    /\ "UA" \in DOMAIN state[Resolve(own, last.inst)].users

-----------------------------------------------------------------------------
(* Keywords: persistence                                                   *)

AllFields == {"keywords", "config_data", "keyword_template_text"}

\* the JSON document save_config writes
Snapshot(K, C, template) ==
    [fields |-> AllFields, keywords |-> K, config_data |-> C,
     keyword_template_text |-> template]

\* the document `{}`
EmptyDoc ==
    [fields |-> {}, keywords |-> <<>>, config_data |-> DefaultConfig,
     keyword_template_text |-> DefaultTemplate]

\* load_config on the class attributes: each field present in the document
\* replaces (template) or updates (keywords, config_data) the default
load_config(doc) ==
    [keywords |-> IF "keywords" \in doc.fields THEN doc.keywords ELSE <<>>,
     config_data |-> IF "config_data" \in doc.fields THEN doc.config_data
                     ELSE DefaultConfig,
     keyword_template_text |->
        IF "keyword_template_text" \in doc.fields
        THEN doc.keyword_template_text ELSE DefaultTemplate]

\* open(..., "w") raises when the file cannot be written
save_config(w) ==
    IF w.env.disk_ok
    THEN [w EXCEPT !.config_file =
            Snapshot(w.keywords, w.config_data, w.keyword_template_text)]
    ELSE [w EXCEPT !.raised = "OSError"]

-----------------------------------------------------------------------------
(* The message texts received                                              *)

Txt_add == <<"k","e","y","w","o","r","d"," ","a","d","d"," ","p","i","n","g"," ","p","o","n","g">>
Txt_add_upper == <<"k","e","y","w","o","r","d"," ","a","d","d"," ","P","i","n","g"," ","h","e","l","l","o"," ","t","h","e","r","e">>
Txt_add_short == <<"k","e","y","w","o","r","d"," ","a","d","d"," ","p","i","n","g">>
Txt_delete == <<"k","e","y","w","o","r","d"," ","d","e","l","e","t","e"," ","p","i","n","g">>
Txt_delete_upper == <<"k","e","y","w","o","r","d"," ","d","e","l","e","t","e"," ","P","i","n","g">>
Txt_delete_short == <<"k","e","y","w","o","r","d"," ","d","e","l","e","t","e">>
Txt_quickadd == <<"k","e","y","w","o","r","d"," ","q","u","i","c","k","a","d","d"," ","p","i","n","g"," ","<","#","C","1","|","g","e","n",">"," ","d","e","v">>
Txt_config == <<"k","e","y","w","o","r","d"," ","c","o","n","f","i","g"," ","*","r","e","p","l","y","_","i","n","_","t","h","r","e","a","d","*"," ","F","a","l","s","e">>
Txt_config_list == <<"k","e","y","w","o","r","d"," ","c","o","n","f","i","g">>
Txt_template == <<"k","e","y","w","o","r","d"," ","t","e","m","p","l","a","t","e"," ","s","e","e"," ","{","c","h","a","n","n","e","l","s","}">>
Txt_list == <<"k","e","y","w","o","r","d"," ","l","i","s","t">>
Txt_other == <<"k","e","y","w","o","r","d"," ","f","r","o","b","n","i","c","a","t","e">>
Txt_config_admins == <<"k","e","y","w","o","r","d"," ","c","o","n","f","i","g"," ","r","e","p","l","y","_","t","o","_","k","e","y","w","o","r","d","s","_","b","y","_","a","d","m","i","n","s"," ","F","a","l","s","e">>
Txt_say == <<"s","a","y"," ","p","i","n","g"," ","p","l","e","a","s","e">>

KwTexts ==
    {Txt_add, Txt_add_upper, Txt_add_short, Txt_delete, Txt_delete_upper,
     Txt_delete_short, Txt_quickadd, Txt_config, Txt_config_list,
     Txt_config_admins, Txt_template, Txt_list, Txt_other, Txt_say}

Txt_ext_list == <<"e","x","t","e","n","s","i","o","n"," ","l","i","s","t">>
Txt_ext_load == <<"e","x","t","e","n","s","i","o","n"," ","l","o","a","d"," ","k","e","y","w","o","r","d","s">>
Txt_ext_enable == <<"e","x","t","e","n","s","i","o","n"," ","e","n","a","b","l","e"," ","K","e","y","w","o","r","d","s">>
Txt_ext_enable_short == <<"e","x","t","e","n","s","i","o","n"," ","e","n","a","b","l","e"," ">>
Txt_ext_disable == <<"e","x","t","e","n","s","i","o","n"," ","d","i","s","a","b","l","e"," ","k","e","y","w","o","r","d","s">>
Txt_ext_disable_manager == <<"e","x","t","e","n","s","i","o","n"," ","d","i","s","a","b","l","e"," ","e","x","t","e","n","s","i","o","n","m","a","n","a","g","e","r">>
Txt_ext_enable_for == <<"e","x","t","e","n","s","i","o","n"," ","e","n","a","b","l","e","_","f","o","r"," ","k","e","y","w","o","r","d","s"," ","#","g","e","n">>
Txt_ext_enable_for_nowhere == <<"e","x","t","e","n","s","i","o","n"," ","e","n","a","b","l","e","_","f","o","r"," ","k","e","y","w","o","r","d","s"," ","#","n","o","p","e">>
Txt_ext_disable_for == <<"e","x","t","e","n","s","i","o","n"," ","d","i","s","a","b","l","e","_","f","o","r"," ","k","e","y","w","o","r","d","s"," ","<","#","C","1","|","g","e","n",">">>
Txt_ext_enable_for_im == <<"e","x","t","e","n","s","i","o","n"," ","e","n","a","b","l","e","_","f","o","r","_","i","m"," ","k","e","y","w","o","r","d","s">>
Txt_ext_disable_for_im == <<"e","x","t","e","n","s","i","o","n"," ","d","i","s","a","b","l","e","_","f","o","r","_","i","m"," ","k","e","y","w","o","r","d","s">>
Txt_ext_enable_bare == <<"e","x","t","e","n","s","i","o","n"," ","e","n","a","b","l","e">>
Txt_ext_enable_for_short == <<"e","x","t","e","n","s","i","o","n"," ","e","n","a","b","l","e","_","f","o","r"," ","k","e","y","w","o","r","d","s">>
Txt_help == <<"h","e","l","p">>
Txt_help_keywords == <<"h","e","l","p"," ","k","e","y","w","o","r","d","s">>

ExtTexts ==
    {Txt_ext_list, Txt_ext_load, Txt_ext_enable, Txt_ext_enable_short,
     Txt_ext_enable_bare, Txt_ext_enable_for_short,
     Txt_ext_disable, Txt_ext_disable_manager, Txt_ext_enable_for,
     Txt_ext_enable_for_nowhere, Txt_ext_disable_for, Txt_ext_enable_for_im,
     Txt_ext_disable_for_im, Txt_help, Txt_help_keywords}

\* keywords with and without accents, and messages that name them
Txt_add_cafe == <<"k","e","y","w","o","r","d"," ","a","d","d"," ","C","a","f","é"," ","y","u","m">>
Txt_add_cafe_plain == <<"k","e","y","w","o","r","d"," ","a","d","d"," ","c","a","f","e"," ","n","o","i","r">>
Txt_add_the == <<"k","e","y","w","o","r","d"," ","a","d","d"," ","t","h","é"," ","v","e","r","t">>
Txt_say_cafe == <<"u","n"," ","c","a","f","e">>
Txt_say_cafe_upper == <<"C","A","F","É">>
Txt_say_the == <<"t","h","e">>

LookupTexts ==
    {Txt_add_cafe, Txt_add_cafe_plain, Txt_add_the, Txt_say_cafe,
     Txt_say_cafe_upper, Txt_say_the}

\* the toggle for replies to thread children, switched on and off
Txt_config_replies == <<"k","e","y","w","o","r","d"," ","c","o","n","f","i","g"," ","r","e","p","l","y","_","t","o","_","r","e","p","l","i","e","s"," ","T","r","u","e">>
Txt_config_replies_off == <<"k","e","y","w","o","r","d"," ","c","o","n","f","i","g"," ","r","e","p","l","y","_","t","o","_","r","e","p","l","i","e","s"," ","0">>

\* the toggle for keywords said by admins, switched on again
Txt_config_admins_on == <<"k","e","y","w","o","r","d"," ","c","o","n","f","i","g"," ","r","e","p","l","y","_","t","o","_","k","e","y","w","o","r","d","s","_","b","y","_","a","d","m","i","n","s"," ","T","r","u","e">>

AllTexts ==
    KwTexts \cup ExtTexts \cup LookupTexts
        \cup {Txt_config_replies, Txt_config_replies_off,
              Txt_config_admins_on}

\* _sanitize_text and split(' ') of the texts received, computed once
SanitizedOf == [t \in AllTexts |-> _sanitize_text(t, FALSE)] @@ <<>>

SplitOf ==
    [t \in AllTexts \cup {SanitizedOf[x] : x \in AllTexts}
        |-> Split(t, " ")] @@ <<>>

Sanitized(text) == SanitizedOf[text]

Words(text) == SplitOf[text]

-----------------------------------------------------------------------------
(* Keywords: the command handlers                                          *)

keyword_list(w, event) ==
    Handled(log_info(w, "Keywords", event.user),
            Regular(Text("keyword_list", <<>>)))

keyword_add_as_typed(w, event) ==
    LET confirm(keyword, w2) ==
            IF w2.raised # "none" THEN Handled(w2, False)
            ELSE Handled(log_info(w2, "Keywords", event.user),
                         Regular(Text("keyword_add_confirmation", keyword)))
        store(keyword, message) ==
            confirm(keyword,
                    save_config([w EXCEPT !.keywords =
                        DictSet(@, keyword, StrReply(Join(message, " ")))]))
    IN  IF Len(Words(event.text)) < 4
        THEN Handled(log_info(w, "Keywords", event.user),
                     Regular(Text("keyword_add_missing_param", <<>>)))
        ELSE store(Words(event.text)[3],
                   SubSeq(Words(event.text), 4, Len(Words(event.text))))

keyword_add(w, event) ==
    LET confirm(keyword, w2) ==
            IF w2.raised # "none" THEN Handled(w2, False)
            ELSE Handled(log_info(w2, "Keywords", event.user),
                         Regular(Text("keyword_add_confirmation", keyword)))
        store(keyword, message) ==
            confirm(keyword,
                    save_config([w EXCEPT !.keywords =
                        DictSet(@, keyword, StrReply(Join(message, " ")))]))
    IN  IF Len(Words(event.text)) < 4
        THEN Handled(log_info(w, "Keywords", event.user),
                     Regular(Text("keyword_add_missing_param", <<>>)))
        ELSE store(LowerSeq(Words(event.text)[3]),
                   SubSeq(Words(event.text), 4, Len(Words(event.text))))

\* the new template is kept in memory only
keyword_template(w, event) ==
    LET set(template) ==
            IF ~Contains(template, Placeholder)
            THEN Handled(log_info(w, "Keywords", event.user),
                         Regular(Text("keyword_template_missing_channel",
                                      <<>>)))
            ELSE Handled(
                    log_info([w EXCEPT !.keyword_template_text = template],
                             "Keywords", event.user),
                    Regular(Text("keyword_template_confirmation", <<>>)))
    IN  IF Len(Words(event.text)) < 3
        THEN Handled(log_info(w, "Keywords", event.user),
                     Regular(Text("keyword_template_missing_param", <<>>)))
        ELSE set(SubSeq(event.text, Len(<<"k","e","y","w","o","r","d"," ","t","e","m","p","l","a","t","e"," ">>) + 1,
                        Len(event.text)))

keyword_quickadd(w, event) ==
    LET confirm(keyword, w2) ==
            IF w2.raised # "none" THEN Handled(w2, False)
            ELSE Handled(log_info(w2, "Keywords", event.user),
                         Regular(Text("keyword_quickadd_confirmation",
                                      keyword)))
        store(keyword, list_channels) ==
            IF list_channels = <<>>
            THEN Handled(log_info(w, "Keywords", event.user),
                         Regular(Text("keyword_quickadd_missing_channel",
                                      <<>>)))
            ELSE confirm(keyword,
                         save_config([w EXCEPT !.keywords =
                            DictSet(@, keyword, ListReply(list_channels))]))
    IN  IF Len(Words(event.text)) < 4
        THEN Handled(log_info(w, "Keywords", event.user),
                     Regular(Text("keyword_quickadd_missing_param", <<>>)))
        ELSE store(LowerSeq(Words(event.text)[3]),
                   SelectSeq(SubSeq(Words(event.text), 4,
                                    Len(Words(event.text))),
                             LAMBDA x : StartsWith(x, <<"<">>)
                                        /\ EndsWith(x, <<">">>)))

keyword_delete_keeping(w, event) ==
    LET confirm(keyword, w2) ==
            IF w2.raised # "none" THEN Handled(w2, False)
            ELSE Handled(log_info(w2, "Keywords", event.user),
                         Regular(Text("keyword_delete_confirmation",
                                      keyword)))
        remove(keyword) ==
            IF DictHas(w.keywords, keyword)
            THEN confirm(keyword, save_config(w))
            ELSE Handled(w, Regular(Text("keyword_delete_inexistant",
                                         keyword)))
    IN  IF Len(Words(event.text)) < 3
        THEN Handled(log_info(w, "Keywords", event.user),
                     Regular(Text("keyword_delete_missing_param", <<>>)))
        ELSE remove(LowerSeq(Words(event.text)[3]))

keyword_delete(w, event) ==
    LET confirm(keyword, w2) ==
            IF w2.raised # "none" THEN Handled(w2, False)
            ELSE Handled(log_info(w2, "Keywords", event.user),
                         Regular(Text("keyword_delete_confirmation",
                                      keyword)))
        remove(keyword) ==
            IF DictHas(w.keywords, keyword)
            THEN confirm(keyword, save_config([w EXCEPT !.keywords = DictDel(@, keyword)]))
            ELSE Handled(w, Regular(Text("keyword_delete_inexistant",
                                         keyword)))
    IN  IF Len(Words(event.text)) < 3
        THEN Handled(log_info(w, "Keywords", event.user),
                     Regular(Text("keyword_delete_missing_param", <<>>)))
        ELSE remove(LowerSeq(Words(event.text)[3]))

keyword_config_list(w, event) ==
    Handled(log_info(w, "Keywords", event.user),
            Regular(Text("keyword_config_list", <<>>)))

\* the keys of config_data, as they are typed
ConfigKeys ==
    (<<"r","e","p","l","y","_","i","n","_","t","h","r","e","a","d">> :> "reply_in_thread")
    @@ (<<"r","e","p","l","y","_","i","n","_","e","p","h","e","m","e","r","a","l">> :> "reply_in_ephemeral")
    @@ (<<"r","e","p","l","y","_","t","o","_","k","e","y","w","o","r","d","s","_","b","y","_","a","d","m","i","n","s">> :> "reply_to_keywords_by_admins")
    @@ (<<"r","e","p","l","y","_","t","o","_","r","e","p","l","i","e","s">> :> "reply_to_replies")

\* every toggle is a bool, so the str branch of the code is never taken;
\* the new value is kept in memory only
keyword_config(w, event) ==
    LET set(key, value_sanitized) ==
            IF key \in DOMAIN ConfigKeys
            THEN IF value_sanitized \in {<<"t","r","u","e">>, <<"f","a","l","s","e">>, <<"0">>, <<"1">>}
                 THEN Handled(
                        [w EXCEPT !.config_data[ConfigKeys[key]] =
                            value_sanitized \notin {<<"f","a","l","s","e">>, <<"0">>}],
                        Regular(Text("keyword_config_confirmation", <<>>)))
                 ELSE Handled(w, Regular(Text("keyword_config_failure",
                                              <<>>)))
            ELSE Handled(w, Regular(Text("keyword_config_unknown_key",
                                         <<>>)))
    IN  IF Len(Words(event.text)) < 4
        THEN keyword_config_list(w, event)
        ELSE set(_sanitize_text(Words(event.text)[3], TRUE),
                 _sanitize_text(Join(SubSeq(Words(event.text), 4,
                                            Len(Words(event.text))), " "),
                                TRUE))

Keywords_switch_to_im_in_place(w, event) ==
    IF w.env.im_ok
    THEN Handled([w EXCEPT !.opened = @ + 1],
                 Regular(Text("config_in_public", <<>>)))
    ELSE Handled([w EXCEPT !.opened = @ + 1, !.raised = "NameError"], False)

\* conversations_open raises SlackApiError when it fails; the name is not
\* imported by the module, so the except clause raises NameError
Keywords_switch_to_im(w, event) ==
    IF w.env.im_ok
    THEN Handled([w EXCEPT !.opened = @ + 1],
                 [ready_to_send |-> TRUE, type |-> Type_regular,
                  channel |-> ImOf(event.user),
                  text |-> Text("config_in_public", <<>>)])
    ELSE Handled([w EXCEPT !.opened = @ + 1, !.raised = "NameError"], False)

-----------------------------------------------------------------------------
(* Keywords: on_message and _send_reply_message                            *)

\* reply_message.update(reply_data) for a reply_data dict: it always has
\* type, text and ready_to_send, and has channel only from switch_to_im
Update(reply_message, reply_data) ==
    [reply_message EXCEPT
        !.ready_to_send = reply_data.ready_to_send,
        !.type = reply_data.type,
        !.channel = IF reply_data.channel = <<>> THEN @
                    ELSE reply_data.channel,
        !.text = reply_data.text]

Keywords_send_reply_message_both(w, reply_message) ==
    LET regular ==
            IF In(<<"r","e","g","u","l","a","r">>, reply_message.type)
            THEN << Msg("chat_postMessage", reply_message.channel,
                        reply_message.user, "-", reply_message.text) >>
            ELSE <<>>
        ephemeral ==
            IF In(<<"e","p","h","e","m","e","r","a","l">>, reply_message.type)
            THEN << Msg("chat_postEphemeral", reply_message.channel,
                        reply_message.user, "-", reply_message.text) >>
            ELSE <<>>
        thread ==
            IF In(<<"t","h","r","e","a","d">>, reply_message.type)
            THEN << Msg("chat_postMessage", reply_message.channel, "-",
                        reply_message.thread_ts, reply_message.text) >>
            ELSE <<>>
    IN  [w EXCEPT !.sent = @ \o regular \o ephemeral \o thread]

Keywords_send_reply_message(w, reply_message) ==
    LET regular ==
            IF In(<<"r","e","g","u","l","a","r">>, reply_message.type)
            THEN << Msg("chat_postMessage", reply_message.channel,
                        reply_message.user, "-", reply_message.text) >>
            ELSE <<>>
        ephemeral ==
            IF In(<<"e","p","h","e","m","e","r","a","l">>, reply_message.type)
               /\ w.config_data.reply_in_ephemeral
            THEN << Msg("chat_postEphemeral", reply_message.channel,
                        reply_message.user, "-", reply_message.text) >>
            ELSE <<>>
        thread ==
            IF In(<<"t","h","r","e","a","d">>, reply_message.type)
               /\ w.config_data.reply_in_thread
            THEN << Msg("chat_postMessage", reply_message.channel, "-",
                        reply_message.thread_ts, reply_message.text) >>
            ELSE <<>>
    IN  [w EXCEPT !.sent = @ \o regular \o ephemeral \o thread]

\* the `if 'keyword' in ...` block: the command handler chosen for the text
Keywords_route(w, event) ==
    LET event_text_sanitized == Sanitized(event.text)
    IN  IF StartsWith(event_text_sanitized, <<"k","e","y","w","o","r","d"," ","l","i","s","t">>)
           \/ event_text_sanitized = <<"k","e","y","w","o","r","d">>
        THEN keyword_list(w, event)
        ELSE IF StartsWith(event_text_sanitized, <<"k","e","y","w","o","r","d"," ","a","d","d">>)
        THEN keyword_add(w, event)
        ELSE IF StartsWith(event_text_sanitized, <<"k","e","y","w","o","r","d"," ","d","e","l","e","t","e">>)
        THEN keyword_delete(w, event)
        ELSE IF StartsWith(event_text_sanitized, <<"k","e","y","w","o","r","d"," ","q","u","i","c","k","a","d","d">>)
        THEN keyword_quickadd(w, event)
        ELSE IF StartsWith(event_text_sanitized, <<"k","e","y","w","o","r","d"," ","t","e","m","p","l","a","t","e">>)
        THEN keyword_template(w, event)
        ELSE IF StartsWith(event_text_sanitized, <<"k","e","y","w","o","r","d"," ","c","o","n","f","i","g">>)
        THEN keyword_config(w, event)
        \* self.keyword does not exist
        ELSE Handled([w EXCEPT !.raised = "AttributeError"], False)

Keywords_search_all_threads(w, event, reply_message) ==
    LET answer(w1, found) ==
            IF found.ready_to_send
            THEN Keywords_send_reply_message(
                    log_info(w1, "Keywords", event.user),
                    [reply_message EXCEPT
                        !.ready_to_send = TRUE,
                        !.text = Text("verbatim", found.text)])
            ELSE w1
        search(auth) ==
            IF auth.ret /\ ~w.config_data.reply_to_keywords_by_admins
            THEN auth.w
            ELSE answer(auth.w,
                        keyword_search_reply(w.keywords,
                                             w.keyword_template_text,
                                             Sanitized(event.text)))
    IN  search(admin_or_owner(w, "Keywords", event.user))

\* a search for which reply_to_keywords_by_admins would be a suppress-switch
Keywords_search_suppressing(w, event, reply_message) ==
    LET answer(w1, found) ==
            IF found.ready_to_send
            THEN Keywords_send_reply_message(
                    log_info(w1, "Keywords", event.user),
                    [reply_message EXCEPT
                        !.ready_to_send = TRUE,
                        !.text = Text("verbatim", found.text)])
            ELSE w1
        search(auth) ==
            IF auth.ret /\ w.config_data.reply_to_keywords_by_admins
            THEN auth.w
            ELSE IF event.thread_ts # "-" /\ event.thread_ts # event.ts
                    /\ ~w.config_data.reply_to_replies
            THEN auth.w
            ELSE answer(auth.w,
                        keyword_search_reply(w.keywords,
                                             w.keyword_template_text,
                                             Sanitized(event.text)))
    IN  search(admin_or_owner(w, "Keywords", event.user))

\* the part of on_message after the command block, when no command reply
\* is ready: the keyword search
Keywords_search(w, event, reply_message) ==
    LET answer(w1, found) ==
            IF found.ready_to_send
            THEN Keywords_send_reply_message(
                    log_info(w1, "Keywords", event.user),
                    [reply_message EXCEPT
                        !.ready_to_send = TRUE,
                        !.text = Text("verbatim", found.text)])
            ELSE w1
        search(auth) ==
            IF auth.ret /\ ~w.config_data.reply_to_keywords_by_admins
            THEN auth.w
            ELSE IF event.thread_ts # "-" /\ event.thread_ts # event.ts
                    /\ ~w.config_data.reply_to_replies
            THEN auth.w
            ELSE answer(auth.w,
                        keyword_search_reply(w.keywords,
                                             w.keyword_template_text,
                                             Sanitized(event.text)))
    IN  search(admin_or_owner(w, "Keywords", event.user))

\* a reply that would always hang below the message that triggered it
Keywords_reply_message_own_ts(event) ==
    [channel |-> event.channel, user |-> event.user,
     ready_to_send |-> FALSE, type |-> Type_thread_ephemeral,
     thread_ts |-> event.ts,
     text |-> Text("-", <<>>)]

\* reply_message as on_message sets it up
Keywords_reply_message(event) ==
    [channel |-> event.channel, user |-> event.user,
     ready_to_send |-> FALSE, type |-> Type_thread_ephemeral,
     thread_ts |-> IF event.thread_ts # "-" THEN event.thread_ts
                   ELSE event.ts,
     text |-> Text("-", <<>>)]

\* what on_message does with the outcome of the command block
Keywords_reply(handled, event) ==
    IF handled.w.raised # "none"
    THEN handled.w
    ELSE IF handled.reply.ready_to_send
    THEN Keywords_send_reply_message(
            handled.w, Update(Keywords_reply_message(event), handled.reply))
    ELSE Keywords_search(handled.w, event, Keywords_reply_message(event))

\* the command block for a sender whose test gave auth
Keywords_command(auth, event) ==
    IF auth.ret
    THEN IF event.channel_type = "channel"
         THEN Keywords_switch_to_im(auth.w, event)
         ELSE Keywords_route(auth.w, event)
    ELSE Handled(auth.w, False)

Keywords_on_message_unguarded(w, event) ==
    IF <<"k","e","y","w","o","r","d">> \in Range(Words(Sanitized(event.text)))
    THEN Keywords_reply(
            Keywords_command(everyone_is_admin(w, "Keywords", event.user),
                             event), event)
    ELSE Keywords_reply(Handled(w, False), event)

\* Keywords.on_message; the result is the world after the event
Keywords_on_message(w, event) ==
    IF <<"k","e","y","w","o","r","d">> \in Range(Words(Sanitized(event.text)))
    THEN Keywords_reply(
            Keywords_command(admin_or_owner(w, "Keywords", event.user),
                             event), event)
    ELSE Keywords_reply(Handled(w, False), event)

-----------------------------------------------------------------------------
(* The bot after the startup sequence of modbot.py                         *)

\* register, load and enable ExtensionManager, then import (which
\* registers), load and enable Keywords
Started ==
    LET E1 == register_extension(<<>>, Name_ExtensionManager)
        E2 == load_extension(E1, Name_ExtensionManager, 1).extensions
        E3 == enable_extension(E2, Name_ExtensionManager).extensions
        E4 == register_extension(E3, Name_Keywords)
        E5 == load_extension(E4, Name_Keywords, 1).extensions
    IN  enable_extension(E5, Name_Keywords).extensions

\* the configuration documents found at startup: `{}`, and one written by
\* an earlier run
SavedDoc ==
    Snapshot(<< Entry(<<"p","i","e">>, StrReply(<<"y","u","m">>)) >>,
             [DefaultConfig EXCEPT !.reply_in_ephemeral = TRUE],
             DefaultTemplate)

InitDocs == {EmptyDoc, SavedDoc}

NoBefore ==
    [set |-> FALSE, kw |-> <<>>, keywords |-> <<>>, config_file |-> EmptyDoc,
     memory |-> EmptyDoc]

BotStart ==
    /\ extensions = Started
    /\ instantiations = [k \in DOMAIN Started |-> 1]
    /\ CacheStart
    /\ config_file \in InitDocs
    /\ keywords = load_config(config_file).keywords
    /\ config_data = load_config(config_file).config_data
    /\ keyword_template_text = load_config(config_file).keyword_template_text
    /\ before_add = NoBefore

\* the sender is reported as admin or owner by the identity cache
Privileged(user) == admin_or_owner(World(Healthy), "Keywords", user).ret

\* an admin's or owner's `keyword add <kw> <text...>` in a direct
\* conversation
AddCommand(event) ==
    LET tokens == Split(event.text, " ")
    IN  /\ Privileged(event.user)
        /\ event.channel_type = "im"
        /\ Len(tokens) >= 4
        /\ tokens[1] = <<"k","e","y","w","o","r","d">>
        /\ tokens[2] = <<"a","d","d">>

\* an admin's or owner's `keyword delete <kw>` in a direct conversation
DeleteCommand(event, kw) ==
    /\ Privileged(event.user)
    /\ event.channel_type = "im"
    /\ Split(event.text, " ") = << <<"k","e","y","w","o","r","d">>, <<"d","e","l","e","t","e">>, kw >>

\* what before_add keeps: the keyword of an add command and the table, the
\* document and the in-memory snapshot the command found
Before(event) ==
    IF AddCommand(event)
    THEN [set |-> TRUE, kw |-> Split(event.text, " ")[3],
          keywords |-> keywords, config_file |-> config_file,
          memory |-> Snapshot(keywords, config_data, keyword_template_text)]
    ELSE NoBefore

\* roundtrip: the event is the delete command for the keyword of the add
\* command handled just before it
Digest(op, event, meta, w) ==
    [op |-> op, event |-> event, meta |-> meta, sent |-> w.sent,
     opened |-> w.opened, delivered |-> w.delivered, raised |-> w.raised,
     roundtrip |-> before_add.set /\ DeleteCommand(event, before_add.kw),
     before |-> IF before_add.set /\ DeleteCommand(event, before_add.kw)
                THEN before_add ELSE NoBefore]

NoMessage == Event("-", "-", <<>>, <<>>, "-", "-")

\* what the payload carries besides the message: its time and its subtype
Meta(event_time, subtype) == [event_time |-> event_time, subtype |-> subtype]

\* a plain message received after the start
Plain == Meta(1, "-")

\* the world after an event becomes the state, and the event is recorded
Becomes(op, event, meta, w) ==
    /\ last' = Digest(op, event, meta, w)
    /\ keywords' = w.keywords
    /\ config_data' = w.config_data
    /\ keyword_template_text' = w.keyword_template_text
    /\ config_file' = w.config_file
    /\ extensions' = w.extensions
    /\ state' = w.state
    /\ own' = w.own

-----------------------------------------------------------------------------
(* Keywords.on_message, event after event                                  *)

KwEvents ==
    {Event("UA", "im", ImOf("UA"), t, "t1", "-") : t \in KwTexts}
    \cup {Event(u, "im", ImOf(u), t, "t1", "-") :
            u \in {"UO", "UP", "UG"}, t \in {Txt_add, Txt_delete}}
    \cup {Event(u, ct, Chan_C1, Txt_add, "t1", "-") :
            u \in {"UA", "UP"}, ct \in {"channel", "group"}}
    \cup {Event(u, "channel", Chan_C1, t, "t1", "-") :
            u \in {"UA", "UO"}, t \in {Txt_delete, Txt_template}}
    \cup {Event(u, "channel", Chan_C1, Txt_say, "t1", th) :
            u \in {"UA", "UP"}, th \in {"-", "t0"}}

KwOnMessage(event) ==
    /\ Becomes("on_message", event, Plain,
               Keywords_on_message(World(Healthy), event))
    /\ before_add' = Before(event)
    /\ UNCHANGED <<instantiations, now, state_last_refresh, window,
                   fetched>>

KwInit ==
    /\ BotStart
    /\ last = Digest("init", NoMessage, Plain, World(Healthy))

KwNext == \E event \in KwEvents : KwOnMessage(event)

SpecKw == KwInit /\ [][KwNext]_vars

\* C8 (as stated): after an admin's `keyword add kw ...` followed by
\* `keyword delete kw` in a direct conversation, the keyword table and the
\* persisted document are what they were before the add.
C8_RoundTripExact ==
    last.roundtrip
    => /\ keywords = last.before.keywords
       /\ config_file = last.before.config_file

\* C8 (amended): when the table did not already hold lower(kw), the add
\* followed by the delete leaves the keyword table as it was before the
\* add and the persisted document equal to the in-memory state, hence equal
\* to the document before the add whenever that was equal to the in-memory
\* state.
C8_RoundTrip ==
    (last.roundtrip /\ ~DictHas(last.before.keywords, LowerSeq(last.before.kw)))
    => /\ keywords = last.before.keywords
       /\ config_file
            = Snapshot(keywords, config_data, keyword_template_text)
       /\ last.before.config_file = last.before.memory
            => config_file = last.before.config_file

C8_Witness ==
    /\ last.roundtrip
    /\ ~DictHas(last.before.keywords, LowerSeq(last.before.kw))
    /\ last.before.keywords # <<>>
    /\ last.before.config_file = last.before.memory

\* C9: after an admin's or owner's `keyword add <kw> <text...>` in a direct
\* conversation, the table maps lower(kw) to the remaining tokens joined by
\* spaces, the persisted document is the in-memory state, and the one
\* message sent is a regular confirmation naming the keyword, posted to
\* that conversation.
C9_AddByAdmin ==
    (last.op = "on_message" /\ AddCommand(last.event))
    => LET tokens == Split(last.event.text, " ")
           kw == LowerSeq(tokens[3])
       IN  /\ DictHas(keywords, kw)
           /\ DictGet(keywords, kw)
                = StrReply(Join(SubSeq(tokens, 4, Len(tokens)), " "))
           /\ config_file
                = Snapshot(keywords, config_data, keyword_template_text)
           /\ last.sent
                = << Msg("chat_postMessage", last.event.channel,
                         last.event.user, "-",
                         Text("keyword_add_confirmation", kw)) >>

C9_Witness ==
    /\ last.op = "on_message"
    /\ AddCommand(last.event)
    /\ last.event.user = "UO"
    /\ Len(last.sent) = 1
    /\ DictHas(keywords, <<"p","i","n","g">>)

\* the text holds the control token as a word of its own
ControlToken(event) ==
    <<"k","e","y","w","o","r","d">> \in Range(Split(_sanitize_text(event.text, FALSE), " "))

\* C11: a message holding the control token 'keyword' as a word of its own,
\* from a sender who is neither admin nor owner, has no message sent and no
\* direct conversation opened.
C11_UnauthorizedSilent ==
    (last.op = "on_message" /\ ControlToken(last.event)
        /\ ~Privileged(last.event.user))
    => (last.sent = <<>> /\ last.opened = 0)

\* C13: an admin's or owner's control-token message on a channel of type
\* 'channel' opens one direct conversation, and the one message sent is a
\* regular one carrying the privacy notice, posted to the conversation
\* that was opened; nothing goes to the public channel.
C13_RedirectToIm ==
    (last.op = "on_message" /\ ControlToken(last.event)
        /\ Privileged(last.event.user)
        /\ last.event.channel_type = "channel")
    => /\ last.opened = 1
       /\ last.sent
            = << Msg("chat_postMessage", ImOf(last.event.user),
                     last.event.user, "-",
                     Text("config_in_public", <<>>)) >>
       /\ \A i \in 1..Len(last.sent) :
            last.sent[i].channel # last.event.channel

C13_Witness ==
    /\ last.op = "on_message"
    /\ last.event.user = "UO"
    /\ last.event.channel_type = "channel"
    /\ last.event.text = Txt_delete
    /\ last.opened = 1
    /\ Len(last.sent) = 1
    /\ DictHas(keywords, <<"p","i","n","g">>)

\* the keyword search runs for the event: the text is no command, the
\* sender is not an admin or owner whose matches are left unanswered, and
\* the message is not a thread child left unanswered
Searched(event) ==
    /\ ~ControlToken(event)
    /\ (Privileged(event.user) => config_data.reply_to_keywords_by_admins)
    /\ (event.thread_ts \notin {"-", event.ts} => config_data.reply_to_replies)

\* the deliveries of a keyword's reply under the two toggles
Deliveries(event, text) ==
    (IF config_data.reply_in_ephemeral
     THEN << Msg("chat_postEphemeral", event.channel, event.user, "-",
                 Text("verbatim", text)) >>
     ELSE <<>>)
    \o (IF config_data.reply_in_thread
        THEN << Msg("chat_postMessage", event.channel, "-",
                    IF event.thread_ts # "-" THEN event.thread_ts
                    ELSE event.ts,
                    Text("verbatim", text)) >>
        ELSE <<>>)

\* C14 (as stated): with the table {ping: 'pong'}, reply_in_thread on and
\* reply_in_ephemeral off, the message 'say ping please' from any user has
\* exactly one message sent, the threaded reply 'pong'.
C14_AnyUserAnswered ==
    (last.op = "on_message" /\ last.event.text = Txt_say
        /\ keywords = << Entry(<<"p","i","n","g">>, StrReply(<<"p","o","n","g">>)) >>
        /\ config_data.reply_in_thread /\ ~config_data.reply_in_ephemeral)
    => last.sent
        = << Msg("chat_postMessage", last.event.channel, "-",
                 IF last.event.thread_ts # "-" THEN last.event.thread_ts
                 ELSE last.event.ts,
                 Text("verbatim", <<"p","o","n","g">>)) >>

\* C14 (amended): when the keyword search runs for a message and a keyword
\* matches, the messages sent are an ephemeral one iff reply_in_ephemeral is
\* on and a threaded one iff reply_in_thread is on, both carrying the
\* keyword's reply, and nothing else.
C14_DeliveryModes ==
    (last.op = "on_message" /\ Searched(last.event)
        /\ keyword_search_reply(keywords, keyword_template_text,
                                _sanitize_text(last.event.text, FALSE))
                .ready_to_send)
    => last.sent
        = Deliveries(last.event,
                     keyword_search_reply(keywords, keyword_template_text,
                        _sanitize_text(last.event.text, FALSE)).text)

C14_Witness ==
    /\ last.op = "on_message"
    /\ last.event.text = Txt_say
    /\ last.event.user = "UA"
    /\ keywords = << Entry(<<"p","i","n","g">>, StrReply(<<"p","o","n","g">>)) >>
    /\ config_data.reply_in_thread /\ ~config_data.reply_in_ephemeral
    /\ Len(last.sent) = 1
    /\ last.sent[1].thread_ts = "t1"

\* the sanitized text starts with none of the subcommands
Unrouted(event) ==
    /\ Sanitized(event.text) # <<"k","e","y","w","o","r","d">>
    /\ \A prefix \in {<<"k","e","y","w","o","r","d"," ","l","i","s","t">>, <<"k","e","y","w","o","r","d"," ","a","d","d">>, <<"k","e","y","w","o","r","d"," ","d","e","l","e","t","e">>,
                      <<"k","e","y","w","o","r","d"," ","q","u","i","c","k","a","d","d">>, <<"k","e","y","w","o","r","d"," ","t","e","m","p","l","a","t","e">>,
                      <<"k","e","y","w","o","r","d"," ","c","o","n","f","i","g">>} :
            ~StartsWith(Sanitized(event.text), prefix)

\* C21: an admin's or owner's message in a direct conversation that holds
\* the control token and starts with none of the subcommands is answered
\* with the generic help, and handling it raises nothing.
C21_FallbackHelp ==
    (last.op = "on_message" /\ Privileged(last.event.user)
        /\ last.event.channel_type = "im"
        /\ ControlToken(last.event) /\ Unrouted(last.event))
    => /\ last.raised = "none"
       /\ \E i \in 1..Len(last.sent) : last.sent[i].text.key = "help"

\* the replies that confirm a change
Confirmations ==
    {"keyword_add_confirmation", "keyword_delete_confirmation",
     "keyword_quickadd_confirmation", "keyword_template_confirmation",
     "keyword_config_confirmation"}

\* C16: whenever the confirmation of a mutating keyword command has been
\* sent, the persisted document equals the in-memory keyword table, config
\* toggles and template.
C16_PersistBeforeConfirm ==
    (last.op = "on_message"
        /\ \E i \in 1..Len(last.sent) : last.sent[i].text.key \in Confirmations)
    => config_file = Snapshot(keywords, config_data, keyword_template_text)

\* C18: the keyword table, the template and the config toggles change only
\* while an event whose channel_type is 'im' is handled.
C18_OnlyInDirectMessages ==
    [][ (<<keywords, keyword_template_text, config_data>>'
            # <<keywords, keyword_template_text, config_data>>)
        => last'.event.channel_type = "im" ]_vars

\* C28: every keyword match that is honoured has at least one message
\* sent for it.
C28_SomeDelivery ==
    (last.op = "on_message" /\ Searched(last.event)
        /\ keyword_search_reply(keywords, keyword_template_text,
                                _sanitize_text(last.event.text, FALSE))
                .ready_to_send)
    => last.sent # <<>>

-----------------------------------------------------------------------------
(* Keywords.on_message on threads and on channel lists, as time passes     *)

\* web_client.conversations_list()['channels'] at time t: after time 0
\* the channel 'gen' has been deleted and created again
ChannelsAt(t) ==
    IF t = 0 THEN conversations_list
    ELSE << [id |-> <<"C","3">>, name |-> <<"g","e","n">>],
            [id |-> Chan_C2, name |-> <<"d","e","v">>] >>

ReplyEvents ==
    {Event("UA", "im", ImOf("UA"), t, "t1", "-") :
        t \in {Txt_add, Txt_quickadd, Txt_config_replies,
               Txt_config_replies_off}}
    \cup {Event("UP", "channel", Chan_C1, Txt_say, "t1", th) :
            th \in {"-", "t0", "t1"}}
    \cup {Event("UA", "channel", Chan_C1, Txt_say, "t1", "t0")}

ReplyTick ==
    /\ now = 0
    /\ now' = 1
    /\ UNCHANGED <<state, own, state_last_refresh, window, fetched, last,
                   before_add>>
    /\ UNCHANGED storeVars
    /\ UNCHANGED <<keywords, config_data, keyword_template_text,
                   config_file>>

ReplyNext ==
    \/ \E event \in ReplyEvents : KwOnMessage(event)
    \/ ReplyTick

SpecReplies == KwInit /\ [][ReplyNext]_vars

\* the message is a thread child
ThreadChild(event) == event.thread_ts \notin {"-", event.ts}

\* C27: a thread child is answered only while reply_to_replies is on, and
\* a top-level message that holds a keyword is answered whatever
\* reply_to_replies is (unless its sender is an admin or owner whose
\* matches are left unanswered).
C27_RepliesToggle ==
    (last.op = "on_message" /\ ~ControlToken(last.event))
    => /\ (ThreadChild(last.event) /\ last.sent # <<>>)
            => config_data.reply_to_replies
       /\ (~ThreadChild(last.event)
            /\ (Privileged(last.event.user)
                    => config_data.reply_to_keywords_by_admins)
            /\ keyword_search_reply(keywords, keyword_template_text,
                    _sanitize_text(last.event.text, FALSE)).ready_to_send)
            => (last.sent # <<>>
                /\ last.sent
                    = Deliveries(last.event,
                        keyword_search_reply(keywords, keyword_template_text,
                            _sanitize_text(last.event.text, FALSE)).text))

C27_Witness ==
    /\ last.op = "on_message"
    /\ last.event.text = Txt_say
    /\ ThreadChild(last.event)
    /\ config_data.reply_to_replies
    /\ last.sent # <<>>
    /\ last.sent[Len(last.sent)].thread_ts = "t0"

\* C37: every keyword reply sent with chat_postMessage carries a thread_ts:
\* the thread_ts of the message that triggered it when it has one, its ts
\* otherwise.
C37_RepliesAtThreadRoot ==
    last.op = "on_message"
    => \A i \in 1..Len(last.sent) :
        (last.sent[i].text.key = "verbatim"
            /\ last.sent[i].method = "chat_postMessage")
        => /\ last.sent[i].thread_ts # "-"
           /\ last.sent[i].thread_ts =
                IF last.event.thread_ts # "-" THEN last.event.thread_ts
                ELSE last.event.ts

\* the reply to a member's message inside a thread another message started
C37_Witness ==
    /\ last.op = "on_message"
    /\ last.event.user = "UP"
    /\ last.event.thread_ts # "-"
    /\ last.event.thread_ts # last.event.ts
    /\ \E i \in 1..Len(last.sent) :
            /\ last.sent[i].text.key = "verbatim"
            /\ last.sent[i].method = "chat_postMessage"
            /\ last.sent[i].thread_ts = last.event.thread_ts

\* C29: the channels a channel-list keyword's reply mentions are channels
\* of the workspace at the time the reply is sent.
C29_ResolvedAtSend ==
    (last.op = "on_message" /\ last.meta = Plain /\ last.sent # <<>>
        /\ last.event.text = Txt_say
        /\ DictHas(keywords, <<"p","i","n","g">>)
        /\ DictGet(keywords, <<"p","i","n","g">>).kind = "list")
    => \A i \in 1..Len(DictGet(keywords, <<"p","i","n","g">>).channels) :
        Contains(last.sent[1].text.arg, DictGet(keywords, <<"p","i","n","g">>).channels[i])
        => \E j \in 1..Len(ChannelsAt(now)) :
            ChannelsAt(now)[j].id
                = ParseChannel(DictGet(keywords, <<"p","i","n","g">>).channels[i])

-----------------------------------------------------------------------------
(* Keywords.on_message on keywords said by admins, owners and others       *)

AdminEvents ==
    {Event("UA", "im", ImOf("UA"), t, "t1", "-") :
        t \in {Txt_add, Txt_config, Txt_config_admins, Txt_config_admins_on,
               Txt_config_replies, Txt_config_replies_off}}
    \cup {Event(u, "channel", Chan_C1, Txt_say, "t1", th) :
            u \in Users, th \in {"-", "t0"}}
    \cup {Event("UP", "channel", Chan_C1, Txt_add, "t1", "-")}

AdminNext == \E event \in AdminEvents : KwOnMessage(event)

SpecAdmins == KwInit /\ [][AdminNext]_vars

\* what the search sends for a message, whoever wrote it
Answer(event) ==
    LET found == keyword_search_reply(keywords, keyword_template_text,
                                      _sanitize_text(event.text, FALSE))
    IN  IF found.ready_to_send
           /\ (ThreadChild(event) => config_data.reply_to_replies)
        THEN Deliveries(event, found.text)
        ELSE <<>>

\* C38: a message that is not answered as a command (it lacks the control
\* token, or its sender is neither admin nor owner) has nothing sent for it
\* when its sender is an admin or owner and reply_to_keywords_by_admins is
\* off; in every other case (the toggle on, or any other sender whatever
\* the toggle) it has sent what the search sends for any sender.
C38_AllowSwitch ==
    (last.op = "on_message"
        /\ (~ControlToken(last.event) \/ ~Privileged(last.event.user)))
    => IF Privileged(last.event.user)
          /\ ~config_data.reply_to_keywords_by_admins
       THEN last.sent = <<>>
       ELSE last.sent = Answer(last.event)

\* the owner says a stored keyword while the toggle is off: no reply
C38_Witness ==
    /\ last.op = "on_message"
    /\ last.event.user = "UO"
    /\ last.event.text = Txt_say
    /\ ~ThreadChild(last.event)
    /\ ~config_data.reply_to_keywords_by_admins
    /\ config_data.reply_in_thread
    /\ DictHas(keywords, <<"p","i","n","g">>)
    /\ last.sent = <<>>

-----------------------------------------------------------------------------
(* Keywords.on_message on keywords with accents                            *)

LookupEvents ==
    {Event("UA", "im", ImOf("UA"), t, "t1", "-") :
        t \in {Txt_add_cafe, Txt_add_cafe_plain, Txt_add_the}}
    \cup {Event("UP", "channel", Chan_C1, t, "t1", "-") :
            t \in {Txt_say_cafe, Txt_say_cafe_upper, Txt_say_the}}

LookupNext == \E event \in LookupEvents : KwOnMessage(event)

SpecLookup == KwInit /\ [][LookupNext]_vars

\* a word with its letter case and the handled diacritics taken away
Folded(word) == _sanitize_text(word, FALSE)

\* C20: a message, one of whose words equals a stored keyword up to letter
\* case and the handled diacritics, is answered with the reply of such a
\* keyword.
C20_FoldedLookup ==
    (last.op = "on_message" /\ Searched(last.event)
        /\ \E i \in 1..Len(keywords) :
                \E word \in Range(Split(last.event.text, " ")) :
                    Folded(word) = Folded(keywords[i].key))
    => \E i \in 1..Len(keywords) :
        /\ \E word \in Range(Split(last.event.text, " ")) :
                Folded(word) = Folded(keywords[i].key)
        /\ keywords[i].reply.kind = "str"
        /\ last.sent = Deliveries(last.event, keywords[i].reply.text)

-----------------------------------------------------------------------------
(* ExtensionManager: the command handlers                                  *)

\* conversations_open raises SlackApiError when it fails; the name is not
\* imported by the module, so the except clause raises NameError
ExtensionManager_switch_to_im(w, event) ==
    IF w.env.im_ok
    THEN Handled([w EXCEPT !.opened = @ + 1],
                 [ready_to_send |-> TRUE, type |-> Type_regular,
                  channel |-> ImOf(event.user),
                  text |-> Text("config_in_public", <<>>)])
    ELSE Handled([w EXCEPT !.opened = @ + 1, !.raised = "NameError"], False)

\* Keywords.help, reached through help_other_extension
Keywords_help(w, event) ==
    Handled(log_info(w, "Keywords", event.user), Regular(Text("help", <<>>)))

ExtensionManager_help(w, event) ==
    IF event.channel_type = "channel"
    THEN ExtensionManager_switch_to_im(w, event)
    ELSE Handled(log_info(w, "ExtensionManager", event.user),
                 Regular(Text("extension_help", <<>>)))

\* the name typed is looked up as it is; a registered extension that was
\* never loaded has no instance to call
help_other_extension(w, event) ==
    LET find(w1, extension) ==
            IF extension \in DOMAIN w1.extensions
            THEN IF w1.extensions[extension].instance = 0
                 THEN Handled([w1 EXCEPT !.raised = "AttributeError"], False)
                 ELSE IF extension = Lower(Name_Keywords)
                 THEN Keywords_help(w1, event)
                 ELSE ExtensionManager_help(w1, event)
            ELSE Handled(w1, Regular(Text("extension_help_no_extension_found",
                                          <<>>)))
    IN  IF event.channel_type = "channel"
        THEN ExtensionManager_switch_to_im(w, event)
        ELSE find(log_info(w, "ExtensionManager", event.user),
                  Words(event.text)[2])

Gate_anywhere(w, event) ==
    LET decide(auth) ==
            IF ~auth.ret
            THEN [pass |-> FALSE,
                  out |-> Handled(log_info(auth.w, "ExtensionManager",
                                           event.user), False)]
            ELSE [pass |-> TRUE, out |-> Handled(auth.w, False)]
    IN  decide(admin_or_owner(w, "ExtensionManager", event.user))

\* the first lines of every configuration handler: a sender who is neither
\* admin nor owner is turned away, a public channel is redirected
Gate(w, event) ==
    LET decide(auth) ==
            IF ~auth.ret
            THEN [pass |-> FALSE,
                  out |-> Handled(log_info(auth.w, "ExtensionManager",
                                           event.user), False)]
            ELSE IF event.channel_type = "channel"
            THEN [pass |-> FALSE,
                  out |-> ExtensionManager_switch_to_im(auth.w, event)]
            ELSE [pass |-> TRUE, out |-> Handled(auth.w, False)]
    IN  decide(admin_or_owner(w, "ExtensionManager", event.user))

extension_list(w, event) ==
    LET list(g) ==
            IF ~g.pass THEN g.out
            ELSE Handled(log_info(g.out.w, "ExtensionManager", event.user),
                         Regular(Text("extension_list", <<>>)))
    IN  list(Gate(w, event))

\* the reply of a handler that called the registry: success or failure,
\* naming the extension
Outcome(w, event, r, command, ext_name) ==
    IF r.ret = "True"
    THEN Handled(log_info([w EXCEPT !.extensions = r.extensions],
                          "ExtensionManager", event.user),
                 Regular(Text(command \o "_success", ext_name)))
    ELSE Handled([w EXCEPT !.extensions = r.extensions],
                 Regular(Text(command \o "_failure", ext_name)))

MissingParam(w, event, command) ==
    Handled(log_info(w, "ExtensionManager", event.user),
            Regular(Text(command \o "_missing_param", <<>>)))

extension_enable(w, event) ==
    LET call(w1, ext_name) ==
            Outcome(w1, event, enable_extension(w1.extensions, ext_name),
                    "extension_enable", ext_name)
        handle(g) ==
            IF ~g.pass THEN g.out
            ELSE IF Len(Words(event.text)) < 3
            THEN MissingParam(g.out.w, event, "extension_enable")
            ELSE call(g.out.w, LowerSeq(Words(event.text)[3]))
    IN  handle(Gate(w, event))

extension_disable(w, event) ==
    LET call(w1, ext_name) ==
            Outcome(w1, event, disable_extension(w1.extensions, ext_name),
                    "extension_disable", ext_name)
        handle(g) ==
            IF ~g.pass THEN g.out
            ELSE IF Len(Words(event.text)) < 3
            THEN MissingParam(g.out.w, event, "extension_disable")
            ELSE call(g.out.w, LowerSeq(Words(event.text)[3]))
    IN  handle(Gate(w, event))

extension_enable_for_im(w, event) ==
    LET call(w1, ext_name) ==
            Outcome(w1, event, enable_extension_for_im(w1.extensions, ext_name),
                    "extension_enable_for_im", ext_name)
        handle(g) ==
            IF ~g.pass THEN g.out
            ELSE IF Len(Words(event.text)) < 3
            THEN MissingParam(g.out.w, event, "extension_enable_for_im")
            ELSE call(g.out.w, LowerSeq(Words(event.text)[3]))
    IN  handle(Gate(w, event))

extension_disable_for_im(w, event) ==
    LET call(w1, ext_name) ==
            Outcome(w1, event, disable_extension_for_im(w1.extensions, ext_name),
                    "extension_disable_for_im", ext_name)
        handle(g) ==
            IF ~g.pass THEN g.out
            ELSE IF Len(Words(event.text)) < 3
            THEN MissingParam(g.out.w, event, "extension_disable_for_im")
            ELSE call(g.out.w, LowerSeq(Words(event.text)[3]))
    IN  handle(Gate(w, event))

\* self.get_channel_info(channel) on the world's cache
ChannelGet(w, channel) ==
    get_channel_info(w.state, w.own, state_last_refresh["ExtensionManager"],
                     "ExtensionManager", channel, now)

\* channel['id'] is evaluated before `channel` is tested: when
\* get_channel_info returned False it raises TypeError
extension_enable_for(w, event) ==
    LET call(w1, ext_name, channel) ==
            IF channel.exc # "none"
            THEN Handled([WithCache(w1, channel) EXCEPT
                            !.raised = channel.exc], False)
            ELSE IF ~channel.found
            THEN Handled([WithCache(w1, channel) EXCEPT
                            !.raised = "TypeError"], False)
            ELSE Outcome(WithCache(w1, channel), event,
                         enable_extension_for(w1.extensions, ext_name,
                                              channel.ret.id),
                         "extension_enable_for", ext_name)
        handle(g) ==
            IF ~g.pass THEN g.out
            ELSE IF Len(Words(event.text)) < 4
            THEN MissingParam(g.out.w, event, "extension_enable_for")
            ELSE call(g.out.w, LowerSeq(Words(event.text)[3]),
                      ChannelGet(g.out.w, Words(event.text)[4]))
    IN  handle(Gate(w, event))

\* as extension_enable_for; disable_extension_for raises KeyError for a
\* channel that is not in the set
extension_disable_for(w, event) ==
    LET reply(w1, ext_name, r) ==
            IF r.ret = "KeyError"
            THEN Handled([w1 EXCEPT !.raised = "KeyError"], False)
            ELSE Outcome(w1, event, r, "extension_disable_for", ext_name)
        call(w1, ext_name, channel) ==
            IF channel.exc # "none"
            THEN Handled([WithCache(w1, channel) EXCEPT
                            !.raised = channel.exc], False)
            ELSE IF ~channel.found
            THEN Handled([WithCache(w1, channel) EXCEPT
                            !.raised = "TypeError"], False)
            ELSE reply(WithCache(w1, channel), ext_name,
                       disable_extension_for(w1.extensions, ext_name,
                                             channel.ret.id))
        handle(g) ==
            IF ~g.pass THEN g.out
            ELSE IF Len(Words(event.text)) < 4
            THEN MissingParam(g.out.w, event, "extension_disable_for")
            ELSE call(g.out.w, LowerSeq(Words(event.text)[3]),
                      ChannelGet(g.out.w, Words(event.text)[4]))
    IN  handle(Gate(w, event))

-----------------------------------------------------------------------------
(* ExtensionManager: on_message and _send_reply_message                    *)

ExtensionManager_send_reply_message(w, reply_message) ==
    IF reply_message.type = Type_regular
    THEN [w EXCEPT !.sent = Append(@, Msg("chat_postMessage",
                                          reply_message.channel,
                                          reply_message.user, "-",
                                          reply_message.text))]
    ELSE [w EXCEPT !.sent = Append(@, Msg("chat_postEphemeral",
                                          reply_message.channel,
                                          reply_message.user, "-",
                                          reply_message.text))]

\* the handler chosen for the text as it was typed; `extension load` names
\* self.extension_add, which does not exist
ExtensionManager_route(w, event) ==
    IF event.text \in {<<"h","e","l","p">>, <<"e","x","t","e","n","s","i","o","n"," ","h","e","l","p">>, <<"h","e","l","p"," ","e","x","t","e","n","s","i","o","n">>}
    THEN ExtensionManager_help(w, event)
    ELSE IF StartsWith(event.text, <<"h","e","l","p"," ">>)
    THEN help_other_extension(w, event)
    ELSE IF StartsWith(event.text, <<"e","x","t","e","n","s","i","o","n">>)
    THEN IF StartsWith(event.text, <<"e","x","t","e","n","s","i","o","n"," ","l","i","s","t">>)
         THEN extension_list(w, event)
         ELSE IF StartsWith(event.text, <<"e","x","t","e","n","s","i","o","n"," ","l","o","a","d"," ">>)
         THEN Handled([w EXCEPT !.raised = "AttributeError"], False)
         ELSE IF StartsWith(event.text, <<"e","x","t","e","n","s","i","o","n"," ","e","n","a","b","l","e"," ">>)
         THEN extension_enable(w, event)
         ELSE IF StartsWith(event.text, <<"e","x","t","e","n","s","i","o","n"," ","e","n","a","b","l","e","_","f","o","r"," ">>)
         THEN extension_enable_for(w, event)
         ELSE IF StartsWith(event.text, <<"e","x","t","e","n","s","i","o","n"," ","e","n","a","b","l","e","_","f","o","r","_","i","m"," ">>)
         THEN extension_enable_for_im(w, event)
         ELSE IF StartsWith(event.text, <<"e","x","t","e","n","s","i","o","n"," ","d","i","s","a","b","l","e"," ">>)
         THEN extension_disable(w, event)
         ELSE IF StartsWith(event.text, <<"e","x","t","e","n","s","i","o","n"," ","d","i","s","a","b","l","e","_","f","o","r"," ">>)
         THEN extension_disable_for(w, event)
         ELSE IF StartsWith(event.text, <<"e","x","t","e","n","s","i","o","n"," ","d","i","s","a","b","l","e","_","f","o","r","_","i","m"," ">>)
         THEN extension_disable_for_im(w, event)
         ELSE Handled(w, False)
    ELSE Handled(w, False)

ExtensionManager_on_message(w, event) ==
    LET reply_message ==
            [channel |-> event.channel, user |-> event.user,
             ready_to_send |-> FALSE, type |-> Type_ephemeral,
             thread_ts |-> "-", text |-> Text("-", <<>>)]
        reply(handled) ==
            IF handled.w.raised # "none"
            THEN handled.w
            ELSE IF handled.reply.ready_to_send
            THEN ExtensionManager_send_reply_message(
                    handled.w, Update(reply_message, handled.reply))
            ELSE handled.w
    IN  reply(ExtensionManager_route(w, event))

-----------------------------------------------------------------------------
(* modbot.py: the dispatcher                                               *)

\* state['start_time'], the time when the reception starts
start_time == 0

\* state['user_id'], the bot's own user
bot_user_id == "UB"

\* the order in which extension_store.extensions is iterated: the order of
\* registration at startup
ExtensionOrder == << Lower(Name_ExtensionManager), Lower(Name_Keywords) >>

\* one turn of `for ext in extension_store.extensions` for a message
Deliver(w, ext, event) ==
    IF w.raised # "none" \/ ~is_enabled(w.extensions, ext)
    THEN w
    ELSE IF ext = Lower(Name_ExtensionManager)
    THEN ExtensionManager_on_message(
            [w EXCEPT !.delivered = Append(@, ext)], event)
    ELSE Keywords_on_message([w EXCEPT !.delivered = Append(@, ext)], event)

\* on_message_deletion and on_message_changed do nothing in both extensions
Notify(w, ext) ==
    IF is_enabled(w.extensions, ext)
    THEN [w EXCEPT !.delivered = Append(@, ext)]
    ELSE w

message(w, event, meta) ==
    IF meta.event_time < start_time
    THEN w
    ELSE IF meta.subtype \in {"message_deleted", "message_changed"}
    THEN Notify(Notify(w, ExtensionOrder[1]), ExtensionOrder[2])
    ELSE IF event.user = bot_user_id
    THEN w
    ELSE Deliver(Deliver(w, ExtensionOrder[1], event),
                 ExtensionOrder[2], event)

\* the messages received: commands of the administrator in a direct
\* conversation, and some of them from other senders and other places
BotEvents ==
    {Event("UA", "im", ImOf("UA"), t, "t1", "-") :
        t \in ExtTexts \cup {Txt_add, Txt_delete, Txt_say, Txt_add_short,
                            Txt_delete_short}}
    \cup {Event("UP", "im", ImOf("UP"), t, "t1", "-") :
            t \in {Txt_ext_disable, Txt_ext_load, Txt_add, Txt_help_keywords}}
    \cup {Event("UG", "im", ImOf("UG"), Txt_ext_enable, "t1", "-"),
          Event("UP", "channel", Chan_C1, Txt_say, "t1", "-"),
          Event(bot_user_id, "channel", Chan_C1, Txt_say, "t1", "-")}
    \cup {Event("UA", "channel", Chan_C1, t, "t1", "-") :
            t \in {Txt_ext_disable, Txt_ext_enable, Txt_ext_disable_for,
                   Txt_ext_enable_for, Txt_ext_disable_for_im, Txt_add,
                   Txt_delete, Txt_config, Txt_template, Txt_help}}
    \cup {Event("UP", "channel", Chan_C1, Txt_add, "t1", "-")}

\* payloads that are not plain: one sent before the start, one deletion,
\* one edit
BotOdd ==
    {<<Event("UA", "im", ImOf("UA"), Txt_add, "t1", "-"),
       Meta(start_time - 1, "-")>>,
     <<Event(bot_user_id, "channel", Chan_C1, Txt_say, "t1", "-"),
       Meta(1, "message_deleted")>>,
     <<Event("UA", "im", ImOf("UA"), Txt_add, "t1", "-"),
       Meta(1, "message_changed")>>}

\* the events during which a write or the opening of a direct conversation
\* fails
BotFailing ==
    {<<Event("UA", "im", ImOf("UA"), Txt_add, "t1", "-"),
       [disk_ok |-> FALSE, im_ok |-> TRUE]>>,
     <<Event("UA", "channel", Chan_C1, Txt_add, "t1", "-"),
       [disk_ok |-> TRUE, im_ok |-> FALSE]>>}

BotMessage(event, meta, env) ==
    /\ Becomes("message", event, meta, message(World(env), event, meta))
    /\ before_add' = NoBefore
    /\ UNCHANGED <<instantiations, now, state_last_refresh, window,
                   fetched>>

\* the bot starts from the document of an earlier run
BotInit ==
    /\ BotStart
    /\ config_file = SavedDoc
    /\ last = Digest("init", NoMessage, Plain, World(Healthy))

BotNext ==
    \/ \E event \in BotEvents : BotMessage(event, Plain, Healthy)
    \/ \E p \in BotOdd : BotMessage(p[1], p[2], Healthy)
    \/ \E p \in BotFailing : BotMessage(p[1], Plain, p[2])

SpecBot == BotInit /\ [][BotNext]_vars

\* C10: the keyword table, the config toggles, the template, the persisted
\* document and the registry change only in a step that handles an event
\* whose sender the identity cache reports as admin or owner.
C10_OnlyAdminsChange ==
    [][ (<<keywords, config_data, keyword_template_text, config_file,
           extensions>>'
            # <<keywords, config_data, keyword_template_text, config_file,
                extensions>>)
        => (last'.op = "message" /\ Privileged(last'.event.user)) ]_vars

C10_Witness ==
    /\ last.op = "message"
    /\ last.event.user = "UP"
    /\ last.event.text = Txt_add
    /\ Len(last.delivered) = 2
    /\ ~DictHas(keywords, <<"p","i","n","g">>)
    /\ DictHas(keywords, <<"p","i","e">>)

\* C12: while an event whose channel_type is 'channel' is handled, whoever
\* sent it and whatever its text, the keyword table, the config toggles,
\* the template, the persisted document and the registry stay as they
\* were.
C12_NoMutationFromChannel ==
    [][ last'.event.channel_type = "channel"
        => UNCHANGED <<keywords, config_data, keyword_template_text,
                       config_file, extensions>> ]_vars

C12_Witness ==
    /\ last.op = "message"
    /\ last.event.user = "UA"
    /\ last.event.channel_type = "channel"
    /\ last.event.text = Txt_ext_disable
    /\ Len(last.delivered) = 2
    /\ last.opened = 1
    /\ is_enabled(extensions, Name_Keywords)

\* C15: an event older than the start of the process, or written by the
\* bot's own user, reaches no hook of any extension, whatever its subtype.
C15_DroppedBeforeHooks ==
    (last.op = "message"
        /\ (last.meta.event_time < start_time
                \/ last.event.user = bot_user_id))
    => last.delivered = <<>>

\* C17: when the write of the persisted document fails during a command,
\* the keyword table and the config toggles stay as they were before the
\* command and no message is sent.
C17_FailedWriteWithheld ==
    [][ last'.raised = "OSError"
        => /\ keywords' = keywords
           /\ config_data' = config_data
           /\ last'.sent = <<>> ]_vars

\* C19: on_message of an extension is invoked for a message only if
\* is_enabled_for holds for the extension and the event: globally enabled,
\* and enabled_for_im for a direct conversation or the channel in
\* enabled_for_channels otherwise (in the registry as the event found it or
\* as it left it).
C19_ScopedDelivery ==
    [][ (last'.op = "message" /\ last'.meta.subtype = "-")
        => \A i \in 1..Len(last'.delivered) :
            \/ is_enabled_for(extensions, last'.delivered[i], last'.event)
                    = "True"
            \/ is_enabled_for(extensions', last'.delivered[i], last'.event)
                    = "True" ]_vars

\* commands that lack an argument, and the replies that say so
TooFewArguments ==
    {Txt_add_short, Txt_delete_short, Txt_ext_enable_bare,
     Txt_ext_enable_for_short}

MissingParamReplies ==
    {"keyword_add_missing_param", "keyword_delete_missing_param",
     "extension_enable_missing_param", "extension_enable_for_missing_param"}

\* C22: an admin's command in a direct conversation with too few
\* arguments, received while both extensions are enabled, is answered with
\* the "I didn't understand your request" reply, changes nothing and
\* raises nothing.
C22_TooFewArguments ==
    [][ (last'.op = "message" /\ last'.meta = Plain
            /\ last'.event.user = "UA" /\ last'.event.channel_type = "im"
            /\ last'.event.text \in TooFewArguments
            /\ is_enabled(extensions, Name_ExtensionManager)
            /\ is_enabled(extensions, Name_Keywords))
        => /\ last'.raised = "none"
           /\ \E i \in 1..Len(last'.sent) :
                last'.sent[i].text.key \in MissingParamReplies
           /\ UNCHANGED <<keywords, config_data, keyword_template_text,
                          config_file, extensions>> ]_vars

\* C23: an admin's `extension enable_for <name> <chan>` in a direct
\* conversation, where <chan> is no channel of the workspace, is answered
\* with the failure reply, leaves the registry as it was and raises
\* nothing.
C23_UnknownChannelFails ==
    [][ (last'.op = "message" /\ last'.meta = Plain
            /\ last'.event.user = "UA" /\ last'.event.channel_type = "im"
            /\ last'.event.text = Txt_ext_enable_for_nowhere
            /\ is_enabled(extensions, Name_ExtensionManager))
        => /\ last'.raised = "none"
           /\ \E i \in 1..Len(last'.sent) :
                last'.sent[i].text.key = "extension_enable_for_failure"
           /\ extensions' = extensions ]_vars

\* C24: an event during which a direct conversation was asked for and no
\* message was sent (the opening failed) raises nothing.
C24_FailedOpenContained ==
    (last.op = "message" /\ last.opened > 0 /\ last.sent = <<>>)
    => last.raised = "none"

\* C25: an admin's `extension load <name>` in a direct conversation,
\* handled by the extension manager, is answered with the load-success or
\* the load-failure reply and raises nothing.
C25_LoadCommand ==
    (last.op = "message" /\ last.meta = Plain
        /\ last.event.user = "UA" /\ last.event.channel_type = "im"
        /\ last.event.text = Txt_ext_load
        /\ Lower(Name_ExtensionManager) \in Range(last.delivered))
    => /\ last.raised = "none"
       /\ \E i \in 1..Len(last.sent) :
            last.sent[i].text.key
                \in {"extension_load_success", "extension_load_failure"}

\* C36: a payload that passes the filters of the dispatcher reaches the
\* hook of an extension exactly when the extension is enabled at its turn:
\* the manager as the event finds the registry, Keywords as the manager's
\* hook leaves it. A disabled extension receives nothing until it is
\* enabled again, an enabled one receives every such payload.
C36_DeliveredWhileEnabled ==
    [][ (/\ last'.op = "message"
         /\ last'.meta.event_time >= start_time
         /\ \/ last'.meta.subtype \in {"message_deleted", "message_changed"}
            \/ last'.event.user # bot_user_id)
        => /\ ExtensionOrder[1] \in Range(last'.delivered)
                <=> is_enabled(extensions, ExtensionOrder[1])
           /\ ExtensionOrder[2] \in Range(last'.delivered)
                <=> is_enabled(extensions', ExtensionOrder[2]) ]_vars

\* C39: the ExtensionManager extension is enabled after any sequence of
\* commands.
C39_ManagerStaysEnabled ==
    is_enabled(extensions, Name_ExtensionManager)

-----------------------------------------------------------------------------
(* The startup sequence of modbot.py, on any configuration file            *)

\* a file that cannot be opened, and one that does not hold JSON: the
\* exception reading it raises is kept in `fields`
Unreadable == [EmptyDoc EXCEPT !.fields = {"IOError"}]
Malformed == [EmptyDoc EXCEPT !.fields = {"JSONDecodeError"}]

\* Keywords.__init__: load_config on the file. `except IOError` names
\* `logger`, which the module does not define, so the clause raises
\* NameError; the exception of json.loads is not caught at all
Keywords_init(doc) ==
    IF "IOError" \in doc.fields
    THEN [raised |-> "NameError", attributes |-> load_config(EmptyDoc)]
    ELSE IF "JSONDecodeError" \in doc.fields
    THEN [raised |-> "JSONDecodeError", attributes |-> load_config(EmptyDoc)]
    ELSE [raised |-> "none", attributes |-> load_config(doc)]

\* the registry when the loop over settings['extensions'] has imported
\* the Keywords module
Imported ==
    LET E1 == register_extension(<<>>, Name_ExtensionManager)
        E2 == load_extension(E1, Name_ExtensionManager, 1).extensions
        E3 == enable_extension(E2, Name_ExtensionManager).extensions
    IN  register_extension(E3, Name_Keywords)

\* load_extension and enable_extension of Keywords: an exception of the
\* constructor leaves load_extension before the record is updated, and
\* ends the startup
LoadKeywords ==
    LET finish(r, E) ==
            /\ Becomes("startup", NoMessage, Plain,
                       [World(Healthy) EXCEPT
                            !.raised = r.raised,
                            !.keywords = r.attributes.keywords,
                            !.config_data = r.attributes.config_data,
                            !.keyword_template_text =
                                r.attributes.keyword_template_text,
                            !.extensions = IF r.raised = "none" THEN E
                                           ELSE extensions])
            /\ instantiations' =
                    IF r.raised = "none"
                    THEN [instantiations EXCEPT ![Lower(Name_Keywords)] = 1]
                    ELSE instantiations
    IN  /\ last.op = "init"
        /\ finish(Keywords_init(config_file),
                  enable_extension(
                    load_extension(extensions, Name_Keywords, 1).extensions,
                    Name_Keywords).extensions)
        /\ UNCHANGED <<now, state_last_refresh, window, fetched,
                       before_add>>

LoadInit ==
    /\ extensions = Imported
    /\ instantiations = [k \in DOMAIN Imported |->
                            IF k = Lower(Name_Keywords) THEN 0 ELSE 1]
    /\ CacheStart
    /\ config_file \in InitDocs \cup {Unreadable, Malformed}
    /\ keywords = <<>>
    /\ config_data = DefaultConfig
    /\ keyword_template_text = DefaultTemplate
    /\ before_add = NoBefore
    /\ last = Digest("init", NoMessage, Plain, World(Healthy))

LoadNext ==
    \/ LoadKeywords
    \/ /\ is_enabled(extensions, Name_Keywords)
       /\ \E event \in ReplyEvents : KwOnMessage(event)

SpecLoad == LoadInit /\ [][LoadNext]_vars

\* C26: the startup load of Keywords raises nothing whatever the file
\* holds, leaves the extension loaded, and on a file that cannot be read
\* or parsed leaves the keyword table empty and the toggles at their
\* defaults.
C26_LoadNeverFatal ==
    last.op = "startup"
    => /\ last.raised = "none"
       /\ is_loaded(extensions, Name_Keywords)
       /\ config_file \in {Unreadable, Malformed}
            => (keywords = <<>> /\ config_data = DefaultConfig)

====
